---- MODULE Spec2Model ----
(***************************************************************************)
(* kwin-mcp: the isolated session lifecycle manager (session.py) and the   *)
(* tool surface that drives it (server.py).                                *)
(*                                                                         *)
(* Session.start and Session.stop are blocking calls made of several       *)
(* system calls; between two of them the wrapper process group (the        *)
(* environment) may act.  Each system call of the two methods is one       *)
(* step of the model, pc is the position of the single Python thread.      *)
(***************************************************************************)
EXTENDS Integers, Sequences, FiniteSets, TLC

\* ------------------------------------------------------------------ bounds
MaxProc  == 2      \* wrapper processes (Popen of dbus-run-session) per run
MaxApps  == 2      \* application processes launched per wrapper process
MaxOut   == 2      \* lines a wrapper group writes to its stdout pipe
MaxErr   == 1      \* chunks a wrapper group writes to its stderr pipe
MaxEnvVars == 2    \* variables set in os.environ / in an extra_env argument
MaxDev   == 3      \* devices the compositor advertises
MaxEvents == 5     \* handshake events the compositor writes
MaxOps   == 2      \* operations called on a constructed EISClient
MaxTouchOps == 4   \* operations called on a negotiated client
MaxClicks == 3     \* click_count of a click
MaxScrollSteps == 3 \* steps of a scroll
Budget == 3        \* timeout of the handshake, in ticks of half a poll interval
MaxArrivals == 3   \* events that arrive during a timed handshake
MaxFingers == 3    \* fingers of a multi-finger swipe
MaxGestureIds == 5 \* touch ids the touch gestures take in all

Pids     == 1..MaxProc
AppPids  == 1..MaxApps

\* what a wrapper group may write on stdout: the bus-address line, the
\* readiness marker, anything else
Lines    == {"DBUS_SESSION_BUS_ADDRESS=addr", "READY", "junk"}

\* SessionConfig.socket_name: "" (generate one) or a caller-chosen name
ConfigNames == {"", "cfgsock"}
GeneratedName == "gensock"
SockNames == {"cfgsock", "gensock"}
Suffixes == {"", ".lock"}

InputTools == {"mouse_move", "mouse_click", "mouse_drag", "mouse_button_down",
               "mouse_scroll", "keyboard_key", "keyboard_type", "touch_tap"}

VARIABLES
    process,      \* Session._process: 0 (None) or the pid of the Popen handle
    info,         \* Session._info
    socket_name,  \* Session._socket_name
    pc,           \* position of the thread inside start / stop / a tool
    caller,       \* who called Session.start / stop: "api" or a server tool
    stopRet,      \* where Session.stop returns to
    dbus_address, \* local of Session.start
    slept,        \* _wait_for_socket: an iteration found neither socket nor exit
    grp,          \* pid -> the process group of the wrapper with that pid
    nextPid,      \* next wrapper pid
    files,        \* socket artifacts present in the runtime directory
    stdout,       \* unread lines in the stdout pipe of the current handle
    stderrBuf,    \* text in the stderr pipe of the current handle
    nOut,         \* lines written so far to the current stdout pipe
    ret,          \* outcome of the last finished call
    startTrace,   \* steps the current / last start went through
    stopTrace,    \* steps the current / last stop went through
    errAtFail,    \* stderr text present when _wait_for_socket gave up
    stopped,      \* pid of the handle the last finished stop tore down
    stopPre,      \* what preceded the current / last direct stop call
    nextApp,      \* next application pid (numbered per wrapper process)
    launched,     \* pids returned by launch_app calls on the current handle
    srvSession,   \* server._session is not None
    srvInput,     \* server._input: 0 (None) or the wrapper pid whose bus it is bound to
    injected,     \* what the last input tool call did at the event injector:
                  \* "none", or issued while the session was "live" / "dead"
    hostEnv,      \* os.environ of the server process
    handedEnv,    \* the environment last handed to a Popen call, and to whom
    eiPc,         \* position of the thread inside EISClient
    ei,           \* EISClient._ei: 0 or the handle of the protocol context
    cookie,       \* EISClient._cookie
    pointer,      \* EISClient._pointer: 0 or a device handle
    keyboard,     \* EISClient._keyboard
    touch_device, \* EISClient._touch_device
    active_touches, \* EISClient._active_touches: touch id -> device of the touch
    next_touch_id,  \* EISClient._next_touch_id
    wire,         \* events the compositor wrote that ei_dispatch has not read
    queue,        \* events ei_dispatch read that ei_get_event has not returned
    sent,         \* events the compositor has written so far
    loopEnd,      \* how the handshake loop ended: early, timeout, dispatch_error
    opRet,        \* outcome of the last operation called on the client
    processed,    \* events the handshake loop has taken from the queue
    refs,         \* device -> references the client holds on it
    ctxAlive,     \* the native protocol context exists
    channel,      \* compositor side of the channel: "none", "open", "released"
    calls,        \* native calls issued on devices, in order
    eiErr,        \* how the construction of the client ended
    nOps,         \* operations called on the constructed client so far
    touchLog,     \* per native touch object, in order of creation: the id it
                  \* was stored under, and the ei_touch_up and ei_touch_unref
                  \* calls it received
    lastOp,       \* the last operation called on the client, and its touch id
    closeTrace,   \* the native releases the last close made, in order
    events,       \* what the last InputBackend gesture had the client emit
    pressed,      \* evdev codes the compositor sees pressed
    held,         \* evdev codes a down tool pressed and no up tool released
    gesture,      \* the last InputBackend gesture made, with its arguments
    before,       \* evdev codes the compositor saw pressed before it
    elapsed       \* time.monotonic() - start of the handshake, in ticks

vars == <<process, info, socket_name, pc, caller, stopRet, dbus_address, slept,
          grp, nextPid, files, stdout, stderrBuf, nOut, ret, startTrace,
          stopTrace, errAtFail, stopped, stopPre, nextApp, launched,
          srvSession, srvInput, injected, hostEnv, handedEnv, eiPc, ei, cookie,
          pointer, keyboard, touch_device, active_touches, next_touch_id, wire,
          queue, sent, loopEnd, opRet, processed, refs, ctxAlive, channel, calls,
          eiErr, nOps, touchLog, lastOp, closeTrace, events, pressed, held,
          gesture, before, elapsed>>

sessVars == <<process, info, socket_name>>
srvVars  == <<srvSession, srvInput, injected>>
ghostVars == <<stopPre>>
envVars  == <<hostEnv, handedEnv>>
registry == <<pointer, keyboard, touch_device>>
eisVars  == <<eiPc, ei, cookie, registry, active_touches, next_touch_id, wire,
              queue, sent, loopEnd, opRet, processed, refs, ctxAlive, channel, calls,
              eiErr, nOps, touchLog, lastOp, closeTrace>>
opGhost  == <<touchLog, lastOp, closeTrace>>
gestVars == <<events, pressed, held, gesture, before>>
clock    == <<elapsed>>
extVars  == <<envVars, eisVars, gestVars, clock>>

\* --------------------------------------------------------------- data types
NoInfo == [set |-> FALSE, dbus_address |-> "", wayland_socket |-> "",
           kwin_pid |-> 0, app_pid |-> 0]

\* SessionInfo(dbus_address, wayland_socket, kwin_pid); app_pid defaults to None
SessionInfo(addr, sock, pid) ==
    [set |-> TRUE, dbus_address |-> addr, wayland_socket |-> sock,
     kwin_pid |-> pid, app_pid |-> 0]

\* a process group that was never created
NoGroup == [wrapper |-> "none", others |-> FALSE, sock |-> "",
            term |-> FALSE, kill |-> FALSE]

NoRet == [op |-> "none", res |-> "none", stderr |-> <<>>, pid |-> 0]
Ret(op, res) == [op |-> op, res |-> res, stderr |-> <<>>, pid |-> 0]

\* ------------------------------------------------------ process primitives
\* the top-level process exists in the process table (running or zombie)
Exists(p) == p # 0 /\ grp[p].wrapper \in {"running", "zombie"}

\* Popen.poll(): reaps the child if it has exited
Reaped(g, p) ==
    IF p # 0 /\ g[p].wrapper = "zombie"
    THEN [g EXCEPT ![p].wrapper = "reaped"]
    ELSE g

\* Popen.poll() is None
PollIsNone(p) == grp[p].wrapper = "running"

\* is_running with the test of poll() inverted
is_running_inverted == process # 0 /\ ~PollIsNone(process)

\* Session.is_running
is_running == process # 0 /\ PollIsNone(process)

\* some member of group p is alive
GroupAlive(p) == grp[p].wrapper = "running" \/ grp[p].others

\* os.killpg(pgid, SIGTERM): delivered to every member, each decides later
Termed(g, p) == [g EXCEPT ![p].term = TRUE]

\* os.killpg(pgid, SIGKILL): no member survives it
Killed(g, p) ==
    [g EXCEPT ![p].kill = TRUE,
              ![p].others = FALSE,
              ![p].wrapper = IF @ = "running" THEN "zombie" ELSE @]

\* path.unlink(missing_ok=True) for both suffixes of a socket name
Unlinked(fs, name) == fs \ {<<name, s>> : s \in Suffixes}

\* ------------------------------------------------------------ environments
\* the variables the two Popen environments are built from; an environment
\* maps each of them to its value or to Unset
EnvKeys == {"WAYLAND_DISPLAY", "DISPLAY", "DBUS_SESSION_BUS_ADDRESS",
            "QT_QPA_PLATFORM", "QT_LINUX_ACCESSIBILITY_ALWAYS_ON",
            "QT_ACCESSIBILITY", "XDG_SESSION_TYPE"}
Unset == "unset"
EmptyEnv == [k \in EnvKeys |-> Unset]

\* the environments that set at most MaxEnvVars variables, each to v
EnvsWith(v) ==
    {e \in [EnvKeys -> {Unset, v}] :
        Cardinality({k \in EnvKeys : e[k] # Unset}) <= MaxEnvVars}

\* dict.update(over) / {**env, ...}
Updated(env, over) ==
    [k \in EnvKeys |-> IF over[k] # Unset THEN over[k] ELSE env[k]]

\* env.pop(key, None)
Popped(env, key) == [env EXCEPT ![key] = Unset]

\* the env dict launch_app hands to Popen
LaunchEnv(host, extra, sock, inf) ==
    LET forced == [host EXCEPT !["WAYLAND_DISPLAY"] = sock,
                               !["QT_QPA_PLATFORM"] = "wayland",
                               !["QT_LINUX_ACCESSIBILITY_ALWAYS_ON"] = "1",
                               !["QT_ACCESSIBILITY"] = "1"]
        upd == Updated(forced, extra)
    IN  IF inf.set /\ inf.dbus_address # ""
        THEN [upd EXCEPT !["DBUS_SESSION_BUS_ADDRESS"] = inf.dbus_address]
        ELSE upd

\* Session._build_env(config): the env dict start hands to the wrapper's
\* Popen (KDE_FULL_SESSION, KDE_SESSION_VERSION and XDG_CURRENT_DESKTOP are
\* forced the way XDG_SESSION_TYPE is)
BuiltEnv(host, extra) ==
    LET forced == [host EXCEPT !["XDG_SESSION_TYPE"] = "wayland",
                               !["QT_LINUX_ACCESSIBILITY_ALWAYS_ON"] = "1",
                               !["QT_ACCESSIBILITY"] = "1"]
    IN  Updated(Popped(Popped(forced, "WAYLAND_DISPLAY"), "DISPLAY"), extra)

NoHanded == [to |-> "none", env |-> EmptyEnv]

EnvIdle ==
    /\ hostEnv = EmptyEnv
    /\ handedEnv = NoHanded

\* ------------------------------------------------------- EIS data types
Devices == 1..MaxDev

\* ei_device_has_capability(device, cap) for the devices a compositor may
\* advertise: a combined absolute pointer and keyboard, a keyboard, an
\* absolute pointer with touch, a relative pointer, touch-only devices
CapsOf(d) ==
    CASE d = 1 -> {"pointer_absolute", "keyboard"}
      [] d = 2 -> {"keyboard"}
      [] d = 3 -> {"pointer_absolute", "touch"}
      [] d = 4 -> {"pointer"}
      [] OTHER -> {"touch"}

Ev(t, d) == [type |-> t, dev |-> d]
SeatAdded  == Ev("seat_added", 0)
Disconnect == Ev("disconnect", 0)
Events == {SeatAdded, Disconnect}
            \cup {Ev("device_added", d) : d \in Devices}
            \cup {Ev("device_resumed", d) : d \in Devices}

\* one native call: what was called, on which device handle, by which method
Call(c, d, op) == [call |-> c, dev |-> d, op |-> op]

\* no EISClient has been constructed
\* the operation record of a client no method was called on
NoOp == [op |-> "none", id |-> -1]

EisIdle ==
    /\ eiPc = "new"
    /\ ei = 0
    /\ cookie = 0
    /\ pointer = 0
    /\ keyboard = 0
    /\ touch_device = 0
    /\ active_touches = {}
    /\ next_touch_id = 0
    /\ wire = <<>>
    /\ queue = <<>>
    /\ sent = {}
    /\ loopEnd = "none"
    /\ opRet = "none"
    /\ processed = {}
    /\ refs = [d \in Devices |-> 0]
    /\ ctxAlive = FALSE
    /\ channel = "none"
    /\ calls = <<>>
    /\ eiErr = "none"
    /\ nOps = 0
    /\ touchLog = <<>>
    /\ lastOp = NoOp
    /\ closeTrace = <<>>
    /\ elapsed = 0

\* no gesture made, nothing pressed
GestureIdle ==
    /\ events = <<>>
    /\ pressed = {}
    /\ held = {}
    /\ gesture = [name |-> "none"]
    /\ before = {}

\* ---------------------------------------------------------------- initial
\* no session started, no tool called
SessionIdle ==
    /\ process = 0
    /\ info = NoInfo
    /\ socket_name = ""
    /\ pc = "idle"
    /\ caller = "api"
    /\ stopRet = "api"
    /\ dbus_address = ""
    /\ slept = FALSE
    /\ grp = [p \in Pids |-> NoGroup]
    /\ nextPid = 1
    /\ stdout = <<>>
    /\ stderrBuf = <<>>
    /\ nOut = 0
    /\ ret = NoRet
    /\ startTrace = <<>>
    /\ stopTrace = <<>>
    /\ errAtFail = <<>>
    /\ stopped = 0
    /\ stopPre = "none"
    /\ nextApp = 1
    /\ launched = {}
    /\ srvSession = FALSE
    /\ srvInput = 0
    /\ injected = "none"

Init ==
    /\ SessionIdle
    /\ files \in {{}, {<<"cfgsock", s>> : s \in Suffixes}}
    /\ EnvIdle
    /\ EisIdle
    /\ GestureIdle

\* ------------------------------------------------------------ Session.start
\* line.split("=", 1)[1] when the line starts with the bus-address prefix
BusAddressOf(line) ==
    IF line = "DBUS_SESSION_BUS_ADDRESS=addr" THEN "addr" ELSE ""

\* readline() on the stdout pipe returns: a line is buffered, or every holder
\* of the write end (the whole group inherits it) is gone and it reads EOF
CanReadLine == stdout # <<>> \/ ~GroupAlive(process)
ReadLine == IF stdout # <<>> THEN Head(stdout) ELSE ""

\* the part of start after the is_running check, up to the Popen call:
\* the socket name is fixed and stale artifacts are unlinked
BeginStart(name, who, g) ==
    /\ socket_name' = (IF name # "" THEN name ELSE GeneratedName)
    /\ files' = Unlinked(files, socket_name')
    /\ grp' = g
    /\ pc' = "start_popen"
    /\ caller' = who
    /\ startTrace' = <<"unlink">>
    /\ stopTrace' = <<>>
    /\ errAtFail' = <<>>
    /\ stopped' = 0
    /\ stopPre' = "none"
    /\ ret' = NoRet

\* Session.start(config), called directly
Start(name) ==
    /\ pc = "idle"
    /\ (is_running \/ nextPid <= MaxProc)
    /\ IF is_running
       THEN /\ ret' = Ret("start", "AlreadyRunning")
            /\ UNCHANGED <<socket_name, files, grp, pc, caller, startTrace,
                           stopTrace, errAtFail, stopped, stopPre>>
       ELSE BeginStart(name, "api", Reaped(grp, process))
    /\ UNCHANGED <<process, info, stopRet, dbus_address, slept, nextPid, stdout,
                   stderrBuf, nOut, nextApp, launched, srvVars>>
    /\ UNCHANGED extVars

\* subprocess.Popen([...], start_new_session=True): the wrapper becomes the
\* leader of a new process group, or the executable cannot be started
StartPopen ==
    /\ pc = "start_popen"
    /\ \/ /\ process' = nextPid
          /\ grp' = [p \in Pids |->
                        IF p = nextPid
                        THEN [wrapper |-> "running", others |-> FALSE,
                              sock |-> socket_name, term |-> FALSE, kill |-> FALSE]
                        ELSE NoGroup]
          /\ launched' = {}
          /\ nextApp' = 1
          /\ nextPid' = nextPid + 1
          /\ stdout' = <<>>
          /\ stderrBuf' = <<>>
          /\ nOut' = 0
          /\ pc' = "start_readline"
          /\ startTrace' = Append(startTrace, "launch")
          /\ UNCHANGED ret
       \/ /\ ret' = Ret("start", "PopenFailed")
          /\ pc' = "idle"
          /\ UNCHANGED <<process, grp, nextPid, stdout, stderrBuf, nOut, startTrace,
                         launched, nextApp>>
    /\ UNCHANGED <<info, socket_name, caller, stopRet, dbus_address, slept, files,
                   stopTrace, errAtFail, stopped, srvVars,
                   ghostVars>>
    /\ UNCHANGED extVars

\* first stdout.readline(): no timeout
StartReadBus ==
    /\ pc = "start_readline"
    /\ CanReadLine
    /\ dbus_address' = BusAddressOf(ReadLine)
    /\ stdout' = (IF stdout # <<>> THEN Tail(stdout) ELSE stdout)
    /\ slept' = FALSE
    /\ pc' = "start_wait"
    /\ UNCHANGED <<sessVars, caller, stopRet, grp, nextPid, files, stderrBuf, nOut,
                   ret, startTrace, stopTrace, errAtFail, stopped, nextApp,
                   launched, srvVars,
                   ghostVars>>
    /\ UNCHANGED extVars

\* self.stop() called from inside start: _process is set, so stop goes on
CallStop(retTo) ==
    /\ pc' = "stop_term"
    /\ stopRet' = retTo
    /\ stopTrace' = <<>>

\* one iteration of the _wait_for_socket loop
StartWaitIter ==
    /\ pc = "start_wait"
    /\ IF <<socket_name, "">> \in files
       THEN /\ pc' = "start_ready"
            /\ startTrace' = Append(startTrace, "socket")
            /\ UNCHANGED <<grp, slept, stopRet, stopTrace, errAtFail>>
       ELSE IF ~PollIsNone(process)
       THEN /\ grp' = Reaped(grp, process)
            /\ startTrace' = Append(startTrace, "exited")
            /\ errAtFail' = stderrBuf
            /\ CallStop("start_fail_socket")
            /\ UNCHANGED slept
       ELSE /\ slept' = TRUE
            /\ UNCHANGED <<grp, pc, startTrace, stopRet, stopTrace, errAtFail>>
    /\ UNCHANGED <<sessVars, caller, dbus_address, nextPid, files, stdout, stderrBuf,
                   nOut, ret, stopped, nextApp, launched, srvVars,
                   ghostVars>>
    /\ UNCHANGED extVars

\* the loop condition fails: timeout seconds have passed
StartWaitTimeout ==
    /\ pc = "start_wait"
    /\ slept
    /\ startTrace' = Append(startTrace, "timeout")
    /\ errAtFail' = stderrBuf
    /\ CallStop("start_fail_socket")
    /\ UNCHANGED <<sessVars, caller, dbus_address, slept, grp, nextPid, files, stdout,
                   stderrBuf, nOut, ret, stopped, nextApp, launched, srvVars,
                   ghostVars>>
    /\ UNCHANGED extVars

\* after the stop() of the socket failure: stderr is read from _process if
\* there still is one, and the error is raised
StartFailSocket ==
    /\ pc = "start_fail_socket"
    /\ ret' = [op |-> "start", res |-> "KWinFailed",
               stderr |-> IF process # 0 THEN stderrBuf ELSE <<>>, pid |-> 0]
    /\ pc' = "idle"
    /\ UNCHANGED <<sessVars, caller, stopRet, dbus_address, slept, grp, nextPid, files,
                   stdout, stderrBuf, nOut, startTrace, stopTrace, errAtFail, stopped,
                   nextApp, launched, srvVars,
                   ghostVars>>
    /\ UNCHANGED extVars

MarkerEvent(line) == IF line = "READY" THEN "ready" ELSE "badmarker"

\* a marker test that takes any line for the marker
IsReadyAnyLine(line) == line # ""

\* ready_line == "READY"
IsReady(line) == line = "READY"

\* second stdout.readline(): no timeout; READY makes the SessionInfo
StartReady ==
    /\ pc = "start_ready"
    /\ CanReadLine
    /\ startTrace' = Append(startTrace, MarkerEvent(ReadLine))
    /\ IF IsReady(ReadLine)
       THEN /\ info' = SessionInfo(dbus_address, socket_name, process)
            /\ stdout' = <<>>
            /\ stderrBuf' = <<>>
            /\ nOut' = 0
            /\ dbus_address' = ""
            /\ slept' = FALSE
            /\ ret' = [op |-> "start", res |-> "ok", stderr |-> <<>>, pid |-> process]
            /\ pc' = (IF caller = "api" THEN "idle" ELSE "srv_launch")
            /\ UNCHANGED <<stopRet, stopTrace>>
       ELSE /\ stdout' = (IF stdout # <<>> THEN Tail(stdout) ELSE stdout)
            /\ CallStop("start_fail_ready")
            /\ UNCHANGED <<info, ret, stderrBuf, nOut, dbus_address, slept>>
    /\ UNCHANGED <<process, socket_name, caller, grp, nextPid, files, errAtFail,
                   stopped, nextApp, launched, srvVars,
                   ghostVars>>
    /\ UNCHANGED extVars

\* after the stop() of the marker failure: the error is raised
StartFailReady ==
    /\ pc = "start_fail_ready"
    /\ ret' = Ret("start", "SetupFailed")
    /\ pc' = "idle"
    /\ UNCHANGED <<sessVars, caller, stopRet, dbus_address, slept, grp, nextPid, files,
                   stdout, stderrBuf, nOut, startTrace, stopTrace, errAtFail, stopped,
                   nextApp, launched, srvVars,
                   ghostVars>>
    /\ UNCHANGED extVars

\* ------------------------------------------------------------- Session.stop
\* the situation a direct stop call is made in
FailedStart == {"KWinFailed", "SetupFailed", "PopenFailed"}
StopCase ==
    IF nextPid = 1 THEN "never_started"
    ELSE IF ret.op = "start" /\ ret.res \in FailedStart THEN "failed_start"
    ELSE IF ret.op = "stop" THEN "stopped"
    ELSE "other"

\* Session.stop(), called directly
Stop ==
    /\ pc = "idle"
    /\ stopPre' = StopCase
    /\ IF process = 0
       THEN /\ ret' = Ret("stop", "ok")
            /\ stopTrace' = <<>>
            /\ UNCHANGED <<pc, stopRet, caller>>
       ELSE /\ CallStop("api")
            /\ caller' = "api"
            /\ ret' = NoRet
    /\ startTrace' = <<>>
    /\ stopped' = 0
    /\ UNCHANGED <<sessVars, dbus_address, slept, grp, nextPid, files, stdout,
                   stderrBuf, nOut, errAtFail, nextApp, launched, srvVars>>
    /\ UNCHANGED extVars

\* pgid = os.getpgid(pid); os.killpg(pgid, SIGTERM), ProcessLookupError passed
StopTerm ==
    /\ pc = "stop_term"
    /\ IF Exists(process)
       THEN /\ grp' = Termed(grp, process)
            /\ stopTrace' = Append(stopTrace, "SIGTERM")
       ELSE /\ stopTrace' = Append(stopTrace, "lookup_failed")
            /\ UNCHANGED grp
    /\ pc' = "stop_wait"
    /\ UNCHANGED <<sessVars, caller, stopRet, dbus_address, slept, nextPid, files,
                   stdout, stderrBuf, nOut, ret, startTrace, errAtFail, stopped,
                   nextApp, launched, srvVars,
                   ghostVars>>
    /\ UNCHANGED extVars

\* an escalation that does not depend on the outcome of the wait
EscalateAlways == TRUE

\* wait(timeout=5) raised TimeoutExpired: the child has not exited
WaitTimedOut == PollIsNone(process)

\* self._process.wait(timeout=5): the child has exited (it is reaped), or
\* TimeoutExpired
StopWait ==
    /\ pc = "stop_wait"
    /\ stopTrace' = Append(stopTrace, IF PollIsNone(process) THEN "timeout" ELSE "exited")
    /\ IF WaitTimedOut
       THEN /\ pc' = "stop_killpg"
            /\ UNCHANGED grp
       ELSE /\ pc' = "stop_unlink"
            /\ grp' = Reaped(grp, process)
    /\ UNCHANGED <<sessVars, caller, stopRet, dbus_address, slept, nextPid, files,
                   stdout, stderrBuf, nOut, ret, startTrace, errAtFail, stopped,
                   nextApp, launched, srvVars,
                   ghostVars>>
    /\ UNCHANGED extVars

\* pgid = os.getpgid(pid); os.killpg(pgid, SIGKILL), ProcessLookupError passed
StopKillpg ==
    /\ pc = "stop_killpg"
    /\ IF Exists(process)
       THEN /\ grp' = Killed(grp, process)
            /\ stopTrace' = Append(stopTrace, "SIGKILL")
       ELSE /\ stopTrace' = Append(stopTrace, "lookup_failed")
            /\ UNCHANGED grp
    /\ pc' = "stop_kill"
    /\ UNCHANGED <<sessVars, caller, stopRet, dbus_address, slept, nextPid, files,
                   stdout, stderrBuf, nOut, ret, startTrace, errAtFail, stopped,
                   nextApp, launched, srvVars,
                   ghostVars>>
    /\ UNCHANGED extVars

\* self._process.kill(): Popen polls first and signals only a live child
StopKill ==
    /\ pc = "stop_kill"
    /\ grp' = (IF PollIsNone(process)
               THEN [grp EXCEPT ![process].wrapper = "zombie"]
               ELSE Reaped(grp, process))
    /\ stopTrace' = Append(stopTrace, "kill")
    /\ pc' = "stop_wait2"
    /\ UNCHANGED <<sessVars, caller, stopRet, dbus_address, slept, nextPid, files,
                   stdout, stderrBuf, nOut, ret, startTrace, errAtFail, stopped,
                   nextApp, launched, srvVars,
                   ghostVars>>
    /\ UNCHANGED extVars

\* self._process.wait(timeout=3) with TimeoutExpired suppressed
StopWait2 ==
    /\ pc = "stop_wait2"
    /\ grp' = Reaped(grp, process)
    /\ stopTrace' = Append(stopTrace, "wait2")
    /\ pc' = "stop_unlink"
    /\ UNCHANGED <<sessVars, caller, stopRet, dbus_address, slept, nextPid, files,
                   stdout, stderrBuf, nOut, ret, startTrace, errAtFail, stopped,
                   nextApp, launched, srvVars,
                   ghostVars>>
    /\ UNCHANGED extVars

\* the socket and lock files are unlinked
StopUnlink ==
    /\ pc = "stop_unlink"
    /\ files' = Unlinked(files, socket_name)
    /\ stopTrace' = Append(stopTrace, "unlink")
    /\ pc' = "stop_clear"
    /\ UNCHANGED <<sessVars, caller, stopRet, dbus_address, slept, grp, nextPid,
                   stdout, stderrBuf, nOut, ret, startTrace, errAtFail, stopped,
                   nextApp, launched, srvVars,
                   ghostVars>>
    /\ UNCHANGED extVars

\* StopClear that forgets self._info = None
StopClearKeepsInfo ==
    /\ pc = "stop_clear"
    /\ process' = 0
    /\ stopped' = process
    /\ stopTrace' = Append(stopTrace, "clear")
    /\ pc' = (IF stopRet = "api" THEN "idle" ELSE stopRet)
    /\ ret' = (IF stopRet = "api" THEN Ret("stop", "ok") ELSE ret)
    /\ stdout' = <<>>
    /\ stderrBuf' = <<>>
    /\ nOut' = 0
    /\ dbus_address' = ""
    /\ slept' = FALSE
    /\ launched' = {}
    /\ UNCHANGED <<info, socket_name, caller, stopRet, grp, nextPid, files,
                   startTrace, errAtFail, nextApp, srvVars, ghostVars>>
    /\ UNCHANGED extVars

\* self._process = None; self._info = None; stop returns to its caller
StopClear ==
    /\ pc = "stop_clear"
    /\ process' = 0
    /\ info' = NoInfo
    /\ stopped' = process
    /\ stopTrace' = Append(stopTrace, "clear")
    /\ pc' = (IF stopRet = "api" THEN "idle" ELSE stopRet)
    /\ ret' = (IF stopRet = "api" THEN Ret("stop", "ok") ELSE ret)
    /\ stdout' = <<>>
    /\ stderrBuf' = <<>>
    /\ nOut' = 0
    /\ dbus_address' = ""
    /\ slept' = FALSE
    /\ launched' = {}
    /\ UNCHANGED <<socket_name, caller, stopRet, grp, nextPid, files, startTrace,
                   errAtFail, nextApp, srvVars,
                   ghostVars>>
    /\ UNCHANGED extVars

\* ------------------------------------------------------- Session.launch_app
\* Session.launch_app(command, extra_env): refused unless running; the new
\* pid is written to the single app_pid field of the SessionInfo
LaunchBody(op) ==
    IF ~is_running
    THEN /\ ret' = Ret(op, "NotRunning")
         /\ grp' = Reaped(grp, process)
         /\ UNCHANGED <<info, nextApp, launched>>
    ELSE /\ nextApp <= MaxApps
         /\ info' = (IF info.set THEN [info EXCEPT !.app_pid = nextApp] ELSE info)
         /\ launched' = launched \cup {nextApp}
         /\ nextApp' = nextApp + 1
         /\ ret' = [op |-> op, res |-> "ok", stderr |-> <<>>, pid |-> nextApp]
         /\ UNCHANGED grp

LaunchApp ==
    /\ pc = "idle"
    /\ LaunchBody("launch_app")
    /\ UNCHANGED <<process, socket_name, pc, caller, stopRet, dbus_address, slept,
                   nextPid, files, stdout, stderrBuf, nOut, startTrace, stopTrace,
                   errAtFail, stopped, srvVars,
                   ghostVars>>
    /\ UNCHANGED extVars

\* ---------------------------------------------------- the wrapper's group
\* Only the group of the current handle is followed: a group whose handle was
\* dropped keeps the state it had when it was dropped.  The pipes are read
\* only inside start, so only what is written while start runs is followed.
ReadingPcs == {"start_readline", "start_wait", "start_ready"}

\* dbus-run-session forks the bus daemon and bash, bash forks the
\* accessibility bus and the compositor
SpawnChildren(p) ==
    /\ p = process
    /\ grp[p].wrapper = "running"
    /\ ~grp[p].others
    /\ grp' = [grp EXCEPT ![p].others = TRUE]
    /\ UNCHANGED <<sessVars, pc, caller, stopRet, dbus_address, slept, nextPid, files,
                   stdout, stderrBuf, nOut, ret, startTrace, stopTrace, errAtFail,
                   stopped, nextApp, launched, srvVars,
                   ghostVars>>
    /\ UNCHANGED extVars

\* the top-level process exits (on its own, or on a signal it got)
WrapperExit(p) ==
    /\ p = process
    /\ grp[p].wrapper = "running"
    /\ grp' = [grp EXCEPT ![p].wrapper = "zombie"]
    /\ UNCHANGED <<sessVars, pc, caller, stopRet, dbus_address, slept, nextPid, files,
                   stdout, stderrBuf, nOut, ret, startTrace, stopTrace, errAtFail,
                   stopped, nextApp, launched, srvVars,
                   ghostVars>>
    /\ UNCHANGED extVars

\* the other members exit
OthersExit(p) ==
    /\ p = process
    /\ grp[p].others
    /\ grp' = [grp EXCEPT ![p].others = FALSE]
    /\ UNCHANGED <<sessVars, pc, caller, stopRet, dbus_address, slept, nextPid, files,
                   stdout, stderrBuf, nOut, ret, startTrace, stopTrace, errAtFail,
                   stopped, nextApp, launched, srvVars,
                   ghostVars>>
    /\ UNCHANGED extVars

\* kwin_wayland --socket <name> creates the socket and its lock file
CreateSocket(p) ==
    /\ p = process
    /\ grp[p].others
    /\ <<grp[p].sock, "">> \notin files
    /\ files' = files \cup {<<grp[p].sock, s>> : s \in Suffixes}
    /\ UNCHANGED <<sessVars, pc, caller, stopRet, dbus_address, slept, grp, nextPid,
                   stdout, stderrBuf, nOut, ret, startTrace, stopTrace, errAtFail,
                   stopped, nextApp, launched, srvVars,
                   ghostVars>>
    /\ UNCHANGED extVars

\* a member of the current handle's group writes a line to the stdout pipe
WriteStdout(line) ==
    /\ process # 0
    /\ pc \in ReadingPcs
    /\ GroupAlive(process)
    /\ nOut < MaxOut
    /\ stdout' = Append(stdout, line)
    /\ nOut' = nOut + 1
    /\ UNCHANGED <<sessVars, pc, caller, stopRet, dbus_address, slept, grp, nextPid,
                   files, stderrBuf, ret, startTrace, stopTrace, errAtFail, stopped,
                   nextApp, launched, srvVars,
                   ghostVars>>
    /\ UNCHANGED extVars

\* a member of the current handle's group writes to the stderr pipe
WriteStderr ==
    /\ process # 0
    /\ pc \in ReadingPcs
    /\ GroupAlive(process)
    /\ Len(stderrBuf) < MaxErr
    /\ stderrBuf' = Append(stderrBuf, "diag")
    /\ UNCHANGED <<sessVars, pc, caller, stopRet, dbus_address, slept, grp, nextPid,
                   files, stdout, nOut, ret, startTrace, stopTrace, errAtFail, stopped,
                   nextApp, launched, srvVars,
                   ghostVars>>
    /\ UNCHANGED extVars

Environment ==
    \/ \E p \in Pids : SpawnChildren(p)
    \/ \E p \in Pids : WrapperExit(p)
    \/ \E p \in Pids : OthersExit(p)
    \/ \E p \in Pids : CreateSocket(p)
    \/ \E line \in Lines : WriteStdout(line)
    \/ WriteStderr

\* the steps inside a running start or stop call
StartStep ==
    \/ StartPopen
    \/ StartReadBus
    \/ StartWaitIter
    \/ StartWaitTimeout
    \/ StartFailSocket
    \/ StartReady
    \/ StartFailReady

StopStep ==
    \/ StopTerm
    \/ StopWait
    \/ StopKillpg
    \/ StopKill
    \/ StopWait2
    \/ StopUnlink
    \/ StopClear

\* ------------------------------------------------------------- server.py
\* the session is Running: it has a process and the process has not exited
Running == process # 0 /\ grp[process].wrapper = "running"

\* session_start(app_command, ...): refused with a message while a session
\* runs; otherwise a new Session object replaces the old one (whose handle
\* is dropped, not stopped) and Session.start is called on it
SessionStart(withApp) ==
    /\ pc = "idle"
    /\ ((srvSession /\ is_running) \/ nextPid <= MaxProc)
    /\ IF srvSession /\ is_running
       THEN /\ ret' = Ret("session_start", "AlreadyRunning")
            /\ UNCHANGED <<sessVars, pc, caller, grp, files, stdout, stderrBuf, nOut,
                           startTrace, stopTrace, errAtFail, stopped, stopPre,
                           launched, srvSession>>
       ELSE /\ srvSession' = TRUE
            /\ process' = 0
            /\ info' = NoInfo
            /\ stdout' = <<>>
            /\ stderrBuf' = <<>>
            /\ nOut' = 0
            /\ launched' = {}
            /\ BeginStart("", IF withApp THEN "session_start_app" ELSE "session_start",
                          Reaped(grp, process))
    /\ injected' = "none"
    /\ UNCHANGED <<stopRet, dbus_address, slept, nextPid, nextApp, srvInput>>
    /\ UNCHANGED extVars

\* session_start after Session.start returned: launch_app if a command was given
SrvLaunch ==
    /\ pc = "srv_launch"
    /\ IF caller = "session_start_app"
       THEN /\ LaunchBody("session_start")
            /\ pc' = (IF is_running THEN "srv_input" ELSE "idle")
       ELSE /\ pc' = "srv_input"
            /\ UNCHANGED <<info, grp, nextApp, launched, ret>>
    /\ UNCHANGED <<process, socket_name, caller, stopRet, dbus_address, slept,
                   nextPid, files, stdout, stderrBuf, nOut, startTrace, stopTrace,
                   errAtFail, stopped, srvVars,
                   ghostVars>>
    /\ UNCHANGED extVars

\* session_start: _input = InputBackend(dbus_address), None on RuntimeError;
\* any other exception (the bus connection failing) leaves _input as it was
SrvInput(outcome) ==
    /\ pc = "srv_input"
    /\ outcome = "ok" => grp[process].others
    /\ srvInput' = (CASE outcome = "ok" -> process
                     [] outcome = "RuntimeError" -> 0
                     [] OTHER -> srvInput)
    /\ ret' = (IF outcome = "DBusException"
               THEN Ret("session_start", "DBusException")
               ELSE [op |-> "session_start", res |-> "ok", stderr |-> <<>>,
                     pid |-> process])
    /\ pc' = "idle"
    /\ UNCHANGED <<sessVars, caller, stopRet, dbus_address, slept, grp, nextPid, files,
                   stdout, stderrBuf, nOut, startTrace, stopTrace, errAtFail, stopped,
                   nextApp, launched, srvSession, injected, ghostVars>>
    /\ UNCHANGED extVars

\* session_stop(): the input backend is closed, Session.stop is called, and
\* both module-level references are cleared
SessionStop ==
    /\ pc = "idle"
    /\ injected' = "none"
    /\ IF ~srvSession
       THEN /\ ret' = Ret("session_stop", "NoSession")
            /\ UNCHANGED <<pc, stopRet, stopTrace, startTrace, srvSession, srvInput>>
       ELSE IF process = 0
       THEN /\ ret' = Ret("session_stop", "ok")
            /\ srvSession' = FALSE
            /\ srvInput' = 0
            /\ UNCHANGED <<pc, stopRet, stopTrace, startTrace>>
       ELSE /\ CallStop("srv_stop_done")
            /\ startTrace' = <<>>
            /\ ret' = NoRet
            /\ UNCHANGED <<srvSession, srvInput>>
    /\ UNCHANGED <<sessVars, caller, dbus_address, slept, grp, nextPid, files, stdout,
                   stderrBuf, nOut, errAtFail, stopped, nextApp, launched, ghostVars>>
    /\ UNCHANGED extVars

SrvStopDone ==
    /\ pc = "srv_stop_done"
    /\ srvSession' = FALSE
    /\ srvInput' = 0
    /\ ret' = Ret("session_stop", "ok")
    /\ pc' = "idle"
    /\ UNCHANGED <<sessVars, caller, stopRet, dbus_address, slept, grp, nextPid, files,
                   stdout, stderrBuf, nOut, startTrace, stopTrace, errAtFail, stopped,
                   nextApp, launched, injected, ghostVars>>
    /\ UNCHANGED extVars

\* _get_session(): refuses unless a session object exists and is running
GetSessionOk == srvSession /\ is_running

\* an input tool (mouse_*, keyboard_*, touch_*): inp = _get_input(), the
\* gesture is issued on it, and _with_frame_capture asks for the session
\* only when screenshots were requested
InputTool(tool, shots) ==
    /\ pc = "idle"
    /\ IF srvInput = 0
       THEN /\ ret' = Ret(tool, "NoInput")
            /\ injected' = "none"
            /\ UNCHANGED grp
       ELSE /\ injected' = (IF Running THEN "live" ELSE "dead")
            /\ IF shots /\ ~GetSessionOk
               THEN /\ ret' = Ret(tool, "NotRunning")
                    /\ grp' = Reaped(grp, process)
               ELSE /\ ret' = Ret(tool, "ok")
                    /\ UNCHANGED grp
    /\ UNCHANGED <<sessVars, pc, caller, stopRet, dbus_address, slept, nextPid, files,
                   stdout, stderrBuf, nOut, startTrace, stopTrace, errAtFail, stopped,
                   nextApp, launched, srvSession, srvInput, ghostVars>>
    /\ UNCHANGED extVars

\* launch_app(command, env): session = _get_session(); session.launch_app(...)
LaunchAppTool ==
    /\ pc = "idle"
    /\ injected' = "none"
    /\ IF ~srvSession
       THEN /\ ret' = Ret("launch_app", "NotRunning")
            /\ UNCHANGED <<info, grp, nextApp, launched>>
       ELSE LaunchBody("launch_app")
    /\ UNCHANGED <<process, socket_name, pc, caller, stopRet, dbus_address, slept,
                   nextPid, files, stdout, stderrBuf, nOut, startTrace, stopTrace,
                   errAtFail, stopped, srvSession, srvInput, ghostVars>>
    /\ UNCHANGED extVars

\* the Session driven directly through its methods
Next ==
    \/ \E name \in ConfigNames : Start(name)
    \/ Stop
    \/ LaunchApp
    \/ StartStep
    \/ StopStep
    \/ Environment

Spec == Init /\ [][Next]_vars

\* The calling thread runs whenever it can: a step of start or stop that is
\* possible is eventually taken.  Nothing is assumed of the wrapper's group.
FairSpec == Spec /\ WF_vars(StartStep) /\ WF_vars(StopStep)

\* the Session driven through the tools of server.py
ServerNext ==
    \/ \E withApp \in BOOLEAN : SessionStart(withApp)
    \/ SrvLaunch
    \/ \E outcome \in {"ok", "RuntimeError", "DBusException"} : SrvInput(outcome)
    \/ SessionStop
    \/ SrvStopDone
    \/ \E tool \in InputTools, shots \in BOOLEAN : InputTool(tool, shots)
    \/ LaunchAppTool
    \/ StartStep
    \/ StopStep
    \/ Environment

ServerSpec == Init /\ [][ServerNext]_vars

\* ------------------------------------------- the environments of Popen
\* a session that start has brought up, in a server process whose own
\* environment sets some of the variables
EnvInit ==
    /\ \E sock \in SockNames, addr \in {"", "addr"} :
          /\ socket_name = sock
          /\ info = SessionInfo(addr, sock, 1)
          /\ grp = [p \in Pids |->
                      IF p = 1
                      THEN [wrapper |-> "running", others |-> TRUE, sock |-> sock,
                            term |-> FALSE, kill |-> FALSE]
                      ELSE NoGroup]
          /\ files = {<<sock, s>> : s \in Suffixes}
    /\ process = 1
    /\ pc = "idle"
    /\ caller = "api"
    /\ stopRet = "api"
    /\ dbus_address = ""
    /\ slept = FALSE
    /\ nextPid = 2
    /\ stdout = <<>>
    /\ stderrBuf = <<>>
    /\ nOut = 0
    /\ ret = [op |-> "start", res |-> "ok", stderr |-> <<>>, pid |-> 1]
    /\ startTrace = <<"unlink", "launch", "socket", "ready">>
    /\ stopTrace = <<>>
    /\ errAtFail = <<>>
    /\ stopped = 0
    /\ stopPre = "none"
    /\ nextApp = 1
    /\ launched = {}
    /\ srvSession = FALSE
    /\ srvInput = 0
    /\ injected = "none"
    /\ hostEnv \in EnvsWith("host")
    /\ handedEnv = NoHanded
    /\ EisIdle
    /\ GestureIdle

\* Session.launch_app(command, extra_env) with the env it hands to Popen
LaunchAppEnv(extra) ==
    /\ pc = "idle"
    /\ LaunchBody("launch_app")
    /\ handedEnv' = (IF is_running
                     THEN [to |-> "app",
                           env |-> LaunchEnv(hostEnv, extra, socket_name, info)]
                     ELSE handedEnv)
    /\ UNCHANGED <<process, socket_name, pc, caller, stopRet, dbus_address, slept,
                   nextPid, files, stdout, stderrBuf, nOut, startTrace, stopTrace,
                   errAtFail, stopped, srvVars, ghostVars, hostEnv, eisVars, gestVars, clock>>

\* env=self._build_env(config) as start evaluates it for the wrapper's Popen
BuildEnv(extra) ==
    /\ pc = "idle"
    /\ handedEnv' = [to |-> "wrapper", env |-> BuiltEnv(hostEnv, extra)]
    /\ UNCHANGED <<sessVars, pc, caller, stopRet, dbus_address, slept, grp, nextPid,
                   files, stdout, stderrBuf, nOut, ret, startTrace, stopTrace,
                   errAtFail, stopped, nextApp, launched, srvVars, ghostVars,
                   hostEnv, eisVars, gestVars, clock>>

EnvNext ==
    \/ \E extra \in EnvsWith("extra") : LaunchAppEnv(extra)
    \/ \E extra \in EnvsWith("extra") : BuildEnv(extra)
    \/ \E p \in Pids : WrapperExit(p)

EnvSpec == EnvInit /\ [][EnvNext]_vars

\* ---------------------------------------------------------- EISClient
\* everything that is not a field of the EISClient or of its channel
hostVars == <<process, info, socket_name, pc, caller, stopRet, dbus_address,
              slept, grp, nextPid, files, stdout, stderrBuf, nOut, ret,
              startTrace, stopTrace, errAtFail, stopped, stopPre, nextApp,
              launched, srvSession, srvInput, injected, hostEnv, handedEnv>>
nonEisVars == <<hostVars, gestVars, clock>>

\* EISClient(dbus_address): __init__ and _setup up to the handshake.  The
\* bus call may raise; after connectToEIS returned the channel, the context
\* may fail to be created, or the backend may refuse the descriptor
Connect(outcome) ==
    /\ eiPc = "new"
    /\ IF outcome = "dbus_error"
       THEN /\ eiErr' = "dbus_error"
            /\ eiPc' = "failed"
            /\ UNCHANGED <<cookie, channel, ei, ctxAlive>>
       ELSE /\ cookie' = 1
            /\ channel' = "open"
            /\ IF outcome = "ok"
               THEN /\ ei' = 1
                    /\ ctxAlive' = TRUE
                    /\ eiPc' = "select0"
                    /\ UNCHANGED eiErr
               ELSE /\ ei' = 0
                    /\ ctxAlive' = FALSE
                    /\ eiErr' = outcome
                    /\ eiPc' = "failed"
    /\ UNCHANGED <<registry, active_touches, next_touch_id, wire, queue, sent,
                   loopEnd, opRet, processed, refs, calls, nOps, opGhost, nonEisVars>>

\* the 0.3 s select waits for, in ticks of half a poll interval
PollTicks == 2

\* the positions at the head of the handshake loop (the first, and the later)
SelectPcs == {"select0", "select"}

\* an event reaches the client's end of the channel: each event once, a
\* device's resumed after its added
Arrive(e) ==
    /\ eiPc \in SelectPcs
    /\ channel = "open"
    /\ e \notin sent
    /\ Cardinality(sent) < MaxEvents
    /\ e.type = "device_resumed" => Ev("device_added", e.dev) \in sent
    /\ wire' = Append(wire, e)
    /\ sent' = sent \cup {e}
    /\ UNCHANGED <<eiPc, ei, cookie, registry, active_touches, next_touch_id, queue,
                   loopEnd, opRet, processed, refs, ctxAlive, channel, calls, eiErr,
                   nOps, opGhost, nonEisVars>>

\* select([ei_fd], 0.3) and ei_dispatch when readable: a negative return
\* leaves the loop without draining
select_dispatch(dispatchOk) ==
    /\ eiPc \in SelectPcs
    /\ IF wire # <<>>
       THEN IF dispatchOk
            THEN /\ queue' = queue \o wire
                 /\ wire' = <<>>
                 /\ eiPc' = "drain"
                 /\ UNCHANGED loopEnd
            ELSE /\ loopEnd' = "dispatch_error"
                 /\ eiPc' = "post"
                 /\ UNCHANGED <<wire, queue>>
       ELSE /\ dispatchOk
            /\ eiPc' = "drain"
            /\ UNCHANGED <<wire, queue, loopEnd>>
    /\ UNCHANGED <<ei, cookie, registry, active_touches, next_touch_id, sent, opRet,
                   processed, refs, ctxAlive, channel, calls, eiErr, nOps, opGhost,
                   hostVars, gestVars>>

\* a pass of the handshake loop, whatever time it takes
NegSelect(dispatchOk) ==
    /\ select_dispatch(dispatchOk)
    /\ UNCHANGED clock

\* the loop is left at the head of an iteration
loop_timeout ==
    /\ eiPc = "select"
    /\ loopEnd' = "timeout"
    /\ eiPc' = "post"
    /\ UNCHANGED <<ei, cookie, registry, active_touches, next_touch_id, wire, queue,
                   sent, opRet, processed, refs, ctxAlive, channel, calls, eiErr, nOps, opGhost,
                   hostVars, gestVars>>

\* time.monotonic() - start < timeout is false at the head of an iteration
NegTimeout ==
    /\ loop_timeout
    /\ UNCHANGED clock

\* a select that returns at once when nothing is readable
PassTimeNoWait(readable, dt) == IF readable THEN dt ELSE 0

\* select.select([ei_fd], [], [], 0.3): it returns after dt when the
\* descriptor becomes readable, and after the poll interval when not
PassTime(readable, dt) == IF readable THEN dt ELSE PollTicks

\* a pass of the loop with the time it takes: it is entered while
\* time.monotonic() - start < timeout; the time of the dispatch and of the
\* drain is not counted
TimedSelect(dispatchOk, dt) ==
    /\ elapsed < Budget
    /\ select_dispatch(dispatchOk)
    /\ elapsed' = elapsed + PassTime(wire # <<>>, dt)

\* an event reaches the client during the timed handshake
TimedArrive(e) ==
    /\ Cardinality(sent) < MaxArrivals
    /\ Arrive(e)

\* while time.monotonic() - start < timeout: is false
TimedTimeout ==
    /\ elapsed >= Budget
    /\ loop_timeout
    /\ UNCHANGED clock

\* a registry slot that takes every device seen with the capability
SlotAfterLastWins(slot, has, d) == IF has THEN d ELSE slot

\* if has_cap and not self._slot: self._slot = ei_device_ref(device)
SlotAfter(slot, has, d) == IF has /\ slot = 0 THEN d ELSE slot

\* references _register_device takes on device d
RefsTaken(d) ==
    Cardinality({c \in {"pointer_absolute", "keyboard", "touch"} :
        /\ c \in CapsOf(d)
        /\ (CASE c = "pointer_absolute" -> pointer
              [] c = "keyboard" -> keyboard
              [] OTHER -> touch_device) = 0})

\* a registration that waits for the seat to be bound first
RegisterDeviceAfterSeat(d) ==
    IF SeatAdded \in processed
    THEN /\ pointer' = SlotAfter(pointer, "pointer_absolute" \in CapsOf(d), d)
         /\ keyboard' = SlotAfter(keyboard, "keyboard" \in CapsOf(d), d)
         /\ touch_device' = SlotAfter(touch_device, "touch" \in CapsOf(d), d)
         /\ refs' = [refs EXCEPT ![d] = @ + RefsTaken(d)]
    ELSE UNCHANGED <<registry, refs>>

\* EISClient._register_device(event)
RegisterDevice(d) ==
    /\ pointer' = SlotAfter(pointer, "pointer_absolute" \in CapsOf(d), d)
    /\ keyboard' = SlotAfter(keyboard, "keyboard" \in CapsOf(d), d)
    /\ touch_device' = SlotAfter(touch_device, "touch" \in CapsOf(d), d)
    /\ refs' = [refs EXCEPT ![d] = @ + RefsTaken(d)]

\* a handshake that takes a disconnect for an event like the others
IsDisconnectNever(e) == FALSE

\* etype == _EI_EVENT_DISCONNECT
IsDisconnect(e) == e.type = "disconnect"

\* one turn of the drain loop: ei_get_event returned an event
NegDrainEvent ==
    /\ eiPc = "drain"
    /\ queue # <<>>
    /\ LET e == Head(queue) IN
          /\ queue' = Tail(queue)
          /\ processed' = processed \cup {e}
          /\ IF IsDisconnect(e)
             THEN /\ eiErr' = "disconnected"
                  /\ eiPc' = "failed"
                  /\ UNCHANGED <<registry, refs>>
             ELSE /\ IF e.type = "device_added"
                     THEN RegisterDevice(e.dev)
                     ELSE UNCHANGED <<registry, refs>>
                  /\ UNCHANGED <<eiErr, eiPc>>
    /\ UNCHANGED <<ei, cookie, active_touches, next_touch_id, wire, sent, loopEnd,
                   opRet, ctxAlive, channel, calls, nOps, opGhost, nonEisVars>>

\* a loop that is left as soon as both slots are filled, with events of the
\* pass still to be read
NegDrainEndEager ==
    /\ eiPc = "drain"
    /\ IF pointer # 0 /\ keyboard # 0
       THEN /\ loopEnd' = "early"
            /\ eiPc' = "post"
       ELSE /\ queue = <<>>
            /\ eiPc' = "select"
            /\ UNCHANGED loopEnd
    /\ UNCHANGED <<ei, cookie, registry, active_touches, next_touch_id, wire, queue,
                   sent, opRet, processed, refs, ctxAlive, channel, calls, eiErr, nOps, opGhost,
                   nonEisVars>>

\* ei_get_event returned nothing: the drain ends, and the loop is left once
\* both the pointer and the keyboard slot are filled
NegDrainEnd ==
    /\ eiPc = "drain"
    /\ queue = <<>>
    /\ IF pointer # 0 /\ keyboard # 0
       THEN /\ loopEnd' = "early"
            /\ eiPc' = "post"
       ELSE /\ eiPc' = "select"
            /\ UNCHANGED loopEnd
    /\ UNCHANGED <<ei, cookie, registry, active_touches, next_touch_id, wire, queue,
                   sent, opRet, processed, refs, ctxAlive, channel, calls, eiErr, nOps, opGhost,
                   nonEisVars>>

\* a test that takes every handle for a new device
DistinctAlways(h, others) == TRUE

\* self._keyboard != self._pointer / self._touch_device not in (...)
Distinct(h, others) == h \notin others

\* the ei_device_start_emulating calls at the end of _negotiate_devices
StartEmulating ==
    <<Call("start_emulating", pointer, "negotiate")>>
    \o (IF Distinct(keyboard, {pointer})
        THEN <<Call("start_emulating", keyboard, "negotiate")>> ELSE <<>>)
    \o (IF touch_device # 0 /\ Distinct(touch_device, {pointer, keyboard})
        THEN <<Call("start_emulating", touch_device, "negotiate")>> ELSE <<>>)

\* after the loop: the two required devices, then start-emulating.  No event
\* is read from the channel after the handshake, so what the compositor
\* wrote and the loop did not take is not followed further
NegPost ==
    /\ eiPc = "post"
    /\ IF pointer = 0
       THEN /\ eiErr' = "no_pointer"
            /\ eiPc' = "failed"
            /\ UNCHANGED calls
       ELSE IF keyboard = 0
       THEN /\ eiErr' = "no_keyboard"
            /\ eiPc' = "failed"
            /\ UNCHANGED calls
       ELSE /\ calls' = calls \o StartEmulating
            /\ eiErr' = "ok"
            /\ eiPc' = "ready"
    /\ wire' = <<>>
    /\ queue' = <<>>
    /\ sent' = {}
    /\ UNCHANGED <<ei, cookie, registry, active_touches, next_touch_id, loopEnd,
                   opRet, processed, refs, ctxAlive, channel, nOps, opGhost, nonEisVars>>

\* ------------------------------------------------ EISClient primitives
\* a constructed client: its methods can be called, also after close
ClientPcs == {"ready", "closed"}

PointerKinds == {"pointer_motion_absolute", "button", "scroll_delta",
                 "scroll_discrete", "scroll_stop"}

\* a primitive that is not followed by a frame
Unframed(c, dev, frameDev, op) ==
    <<Call(c, dev, op), Call("dispatch", ei, op)>>

\* the native primitive, ei_device_frame(device, now), self._flush()
Framed(c, dev, frameDev, op) ==
    <<Call(c, dev, op), Call("frame", frameDev, op), Call("dispatch", ei, op)>>

\* pointer_move_absolute, pointer_button, pointer_scroll,
\* pointer_scroll_discrete, pointer_scroll_stop
PointerOp(kind) ==
    /\ eiPc \in ClientPcs
    /\ nOps < MaxOps
    /\ calls' = calls \o Framed(kind, pointer, pointer, kind)
    /\ opRet' = "ok"
    /\ nOps' = nOps + 1
    /\ lastOp' = [op |-> kind, id |-> -1]
    /\ UNCHANGED <<eiPc, ei, cookie, registry, active_touches, next_touch_id, wire,
                   queue, sent, loopEnd, processed, refs, ctxAlive, channel, eiErr,
                   touchLog, closeTrace, nonEisVars>>

\* keyboard_key(keycode, state)
KeyboardKey ==
    /\ eiPc \in ClientPcs
    /\ nOps < MaxOps
    /\ calls' = calls \o Framed("keyboard_key", keyboard, keyboard, "keyboard_key")
    /\ opRet' = "ok"
    /\ nOps' = nOps + 1
    /\ lastOp' = [op |-> "keyboard_key", id |-> -1]
    /\ UNCHANGED <<eiPc, ei, cookie, registry, active_touches, next_touch_id, wire,
                   queue, sent, loopEnd, processed, refs, ctxAlive, channel, eiErr,
                   touchLog, closeTrace, nonEisVars>>

\* self._touch_device or self._pointer
TouchDeviceNow == IF touch_device # 0 THEN touch_device ELSE pointer

TouchIds == 0..MaxOps
ActiveIds == {t[1] : t \in active_touches}

\* the device of the touch object stored under id (0 when none is stored)
DeviceOfTouch(id) ==
    IF id \in ActiveIds THEN (CHOOSE t \in active_touches : t[1] = id)[2] ELSE 0

\* a touch_down that takes the id before it asks for the touch object
IdAfterAlways(id, created) == id + 1

\* touch_id = self._next_touch_id; self._next_touch_id += 1, reached only
\* when ei_device_touch_new returned a touch object
IdAfter(id, created) == IF created THEN id + 1 ELSE id

\* the body of touch_down(x, y): ei_device_touch_new may return no touch
\* object, and then RuntimeError is raised before anything else is done
touch_down(created) ==
    /\ LET device == TouchDeviceNow IN
          IF created
          THEN /\ calls' = calls \o <<Call("touch_new", device, "touch_down")>>
                              \o Framed("touch_down", device, device, "touch_down")
               /\ active_touches' = active_touches \cup {<<next_touch_id, device>>}
               /\ touchLog' = Append(touchLog, [id |-> next_touch_id, up |-> 0,
                                             unref |-> 0])
               /\ opRet' = "ok"
          ELSE /\ calls' = Append(calls, Call("touch_new", device, "touch_down"))
               /\ opRet' = "RuntimeError"
               /\ UNCHANGED <<active_touches, touchLog>>
    /\ next_touch_id' = IdAfter(next_touch_id, created)
    /\ nOps' = nOps + 1
    /\ lastOp' = [op |-> "touch_down",
                   id |-> IF created THEN next_touch_id ELSE -1]
    /\ UNCHANGED <<eiPc, ei, cookie, registry, wire, queue, sent, loopEnd, processed,
                   refs, ctxAlive, channel, eiErr, closeTrace, nonEisVars>>

\* touch_down(x, y)
TouchDown(created) ==
    /\ eiPc \in ClientPcs
    /\ nOps < MaxOps
    /\ touch_down(created)

\* a lookup that takes every id for an active one
IsActiveAlways(id) == TRUE

\* self._active_touches.get(touch_id) is not None
IsActive(id) == id \in ActiveIds

\* the body of touch_move(touch_id, x, y)
touch_move(id) ==
    /\ IF ~IsActive(id)
       THEN /\ opRet' = "ValueError"
            /\ UNCHANGED calls
       ELSE /\ calls' = calls \o Framed("touch_motion", DeviceOfTouch(id),
                                        TouchDeviceNow, "touch_move")
            /\ opRet' = "ok"
    /\ nOps' = nOps + 1
    /\ lastOp' = [op |-> "touch_move", id |-> id]
    /\ UNCHANGED <<eiPc, ei, cookie, registry, active_touches, next_touch_id, wire,
                   queue, sent, loopEnd, processed, refs, ctxAlive, channel, eiErr,
                   touchLog, closeTrace, nonEisVars>>

\* touch_move(touch_id, x, y)
TouchMove(id) ==
    /\ eiPc \in ClientPcs
    /\ nOps < MaxOps
    /\ touch_move(id)

\* a release that lifts the touches and keeps their objects
LiftedKept(log, ids) ==
    [i \in 1..Len(log) |->
        IF log[i].id \in ids THEN [log[i] EXCEPT !.up = @ + 1] ELSE log[i]]

\* ei_touch_up(touch) and ei_touch_unref(touch) for each touch in ids
Lifted(log, ids) ==
    [i \in 1..Len(log) |->
        IF log[i].id \in ids
        THEN [log[i] EXCEPT !.up = @ + 1, !.unref = @ + 1]
        ELSE log[i]]

\* the body of touch_up(touch_id): the touch is popped, lifted and released
touch_up(id) ==
    /\ IF ~IsActive(id)
       THEN /\ opRet' = "ValueError"
            /\ UNCHANGED <<calls, active_touches, touchLog>>
       ELSE /\ calls' = calls \o Framed("touch_up", DeviceOfTouch(id),
                                        TouchDeviceNow, "touch_up")
            /\ active_touches' = {t \in active_touches : t[1] # id}
            /\ touchLog' = Lifted(touchLog, {id})
            /\ opRet' = "ok"
    /\ nOps' = nOps + 1
    /\ lastOp' = [op |-> "touch_up", id |-> id]
    /\ UNCHANGED <<eiPc, ei, cookie, registry, next_touch_id, wire, queue, sent,
                   loopEnd, processed, refs, ctxAlive, channel, eiErr, closeTrace,
                   nonEisVars>>

\* touch_up(touch_id)
TouchUp(id) ==
    /\ eiPc \in ClientPcs
    /\ nOps < MaxOps
    /\ touch_up(id)

\* the touches close lifts, in the order of the dict (the order of their ids)
RECURSIVE LiftAll(_)
LiftAll(touches) ==
    IF touches = {} THEN <<>>
    ELSE LET t == CHOOSE x \in touches : \A y \in touches : x[1] <= y[1]
         IN  <<Call("touch_up", t[2], "close")>> \o LiftAll(touches \ {t})

\* the device handles close stops and releases, in order: the touch device
\* unless it is the pointer or the keyboard, the pointer, then the keyboard
\* (compared with the pointer slot after that slot was zeroed)
Released ==
    (IF touch_device # 0 /\ touch_device \notin {pointer, keyboard}
     THEN <<touch_device>> ELSE <<>>)
    \o (IF pointer # 0 THEN <<pointer>> ELSE <<>>)
    \o (IF keyboard # 0 THEN <<keyboard>> ELSE <<>>)

Count(seq, d) == Cardinality({i \in 1..Len(seq) : seq[i] = d})

\* one native release made by close: the call, and what it is made on (the
\* id of a touch, the slot of a device, the cookie, the context)
Step(what, x) == [step |-> what, of |-> x]

\* the slots of the handles in Released
ReleasedSlots ==
    (IF touch_device # 0 /\ touch_device \notin {pointer, keyboard}
     THEN <<"touch">> ELSE <<>>)
    \o (IF pointer # 0 THEN <<"pointer">> ELSE <<>>)
    \o (IF keyboard # 0 THEN <<"keyboard">> ELSE <<>>)

\* ei_touch_up and ei_touch_unref for each lingering touch, by id
RECURSIVE TouchSteps(_)
TouchSteps(ids) ==
    IF ids = {} THEN <<>>
    ELSE LET id == CHOOSE x \in ids : \A y \in ids : x <= y
         IN  <<Step("touch_up", id), Step("touch_unref", id)>>
             \o TouchSteps(ids \ {id})

\* ei_device_stop_emulating and ei_device_unref for each released handle
DeviceSteps ==
    [i \in 1..(2 * Len(ReleasedSlots)) |->
        IF i % 2 = 1 THEN Step("stop_emulating", ReleasedSlots[(i + 1) \div 2])
        ELSE Step("device_unref", ReleasedSlots[i \div 2])]

\* a close that releases the context before anything else
CloseStepsContextFirst ==
    (IF ei # 0 THEN <<Step("ei_unref", ei)>> ELSE <<>>)
    \o TouchSteps(ActiveIds)
    \o DeviceSteps
    \o (IF cookie # 0 THEN <<Step("disconnect", cookie)>> ELSE <<>>)

\* the native releases of close(), in the order of its statements
CloseSteps ==
    TouchSteps(ActiveIds)
    \o DeviceSteps
    \o (IF cookie # 0 THEN <<Step("disconnect", cookie)>> ELSE <<>>)
    \o (IF ei # 0 THEN <<Step("ei_unref", ei)>> ELSE <<>>)

\* the body of EISClient.close(); the disconnect call on the bus may raise
\* DBusException, which is suppressed
close(busOk) ==
    /\ calls' = calls \o LiftAll(active_touches)
                      \o [i \in 1..Len(Released) |->
                             Call("stop_emulating", Released[i], "close")]
    /\ closeTrace' = CloseSteps
    /\ touchLog' = Lifted(touchLog, ActiveIds)
    /\ active_touches' = {}
    /\ refs' = [d \in Devices |-> refs[d] - Count(Released, d)]
    /\ touch_device' = (IF touch_device \notin {pointer, keyboard} THEN 0
                        ELSE touch_device)
    /\ pointer' = 0
    /\ keyboard' = 0
    /\ channel' = (IF cookie # 0 /\ busOk THEN "released" ELSE channel)
    /\ ei' = 0
    /\ ctxAlive' = FALSE
    /\ eiPc' = "closed"
    /\ opRet' = "ok"
    /\ nOps' = nOps + 1
    /\ lastOp' = [op |-> "close", id |-> -1]
    /\ UNCHANGED <<cookie, next_touch_id, wire, queue, sent, loopEnd, processed,
                   eiErr, nonEisVars>>

\* EISClient.close()
Close(busOk) ==
    /\ eiPc \in ClientPcs
    /\ nOps < MaxOps
    /\ close(busOk)

\* the EISClient driven directly through its constructor and methods
EisNext ==
    \/ \E outcome \in {"dbus_error", "ctx_failed", "backend_failed", "ok"} :
          Connect(outcome)
    \/ \E e \in Events : Arrive(e)
    \/ \E dispatchOk \in BOOLEAN : NegSelect(dispatchOk)
    \/ NegTimeout
    \/ NegDrainEvent
    \/ NegDrainEnd
    \/ NegPost
    \/ \E kind \in PointerKinds : PointerOp(kind)
    \/ KeyboardKey
    \/ \E created \in BOOLEAN : TouchDown(created)
    \/ \E id \in TouchIds : TouchMove(id)
    \/ \E id \in TouchIds : TouchUp(id)
    \/ \E busOk \in BOOLEAN : Close(busOk)

\* no client constructed, no session started, an empty runtime directory
EisInit == Init /\ files = {}

EisSpec == EisInit /\ [][EisNext]_vars

\* the handshake with its clock, up to the constructed or failed client
HandshakeNext ==
    \/ \E outcome \in {"dbus_error", "ctx_failed", "backend_failed", "ok"} :
          Connect(outcome)
    \/ \E e \in Events : TimedArrive(e)
    \/ \E dispatchOk \in BOOLEAN, dt \in 0..PollTicks : TimedSelect(dispatchOk, dt)
    \/ TimedTimeout
    \/ NegDrainEvent
    \/ NegDrainEnd
    \/ NegPost

\* the steps of the thread that constructs the client
HandshakeThread ==
    \/ \E dispatchOk \in BOOLEAN, dt \in 0..PollTicks : TimedSelect(dispatchOk, dt)
    \/ TimedTimeout
    \/ NegDrainEvent
    \/ NegDrainEnd
    \/ NegPost

\* the thread runs on; the compositor may send nothing
HandshakeSpec == EisInit /\ [][HandshakeNext]_vars /\ WF_vars(HandshakeThread)

\* ------------------------------------------- touches on a negotiated client
\* the client after a handshake that took the added events of the devices in
\* the slots r = <<pointer, keyboard, touch device>> in one drain, and
\* started emulating
Negotiated(r) ==
    /\ eiPc = "ready"
    /\ ei = 1
    /\ cookie = 1
    /\ pointer = r[1]
    /\ keyboard = r[2]
    /\ touch_device = r[3]
    /\ active_touches = {}
    /\ next_touch_id = 0
    /\ wire = <<>>
    /\ queue = <<>>
    /\ sent = {}
    /\ loopEnd = "early"
    /\ opRet = "none"
    /\ processed = {Ev("device_added", r[i]) : i \in {j \in 1..3 : r[j] # 0}}
    /\ refs = [d \in Devices |-> Cardinality({i \in 1..3 : r[i] = d})]
    /\ ctxAlive = TRUE
    /\ channel = "open"
    /\ calls = StartEmulating
    /\ eiErr = "ok"
    /\ nOps = 0
    /\ touchLog = <<>>
    /\ lastOp = NoOp
    /\ closeTrace = <<>>
    /\ elapsed = 0

\* the registries the touch operations are followed from: no touch device,
\* a touch device of its own, a touch device that is also the pointer
Registries == {<<1, 1, 0>>, <<1, 1, 3>>, <<3, 1, 3>>}

ClientInit ==
    /\ SessionIdle
    /\ files = {}
    /\ EnvIdle
    /\ GestureIdle
    /\ \E r \in Registries : Negotiated(r)

\* the ids a caller passes: those handed out so far, and the next one
CallIds == 0..next_touch_id

\* touch_down(x, y) on the negotiated client
ClientTouchDown(created) ==
    /\ eiPc \in ClientPcs
    /\ nOps < MaxTouchOps
    /\ touch_down(created)

\* touch_move(touch_id, x, y) on the negotiated client
ClientTouchMove(id) ==
    /\ eiPc \in ClientPcs
    /\ nOps < MaxTouchOps
    /\ touch_move(id)

\* touch_up(touch_id) on the negotiated client
ClientTouchUp(id) ==
    /\ eiPc \in ClientPcs
    /\ nOps < MaxTouchOps
    /\ touch_up(id)

\* close() on the negotiated client
ClientClose(busOk) ==
    /\ eiPc \in ClientPcs
    /\ nOps < MaxTouchOps
    /\ close(busOk)

ClientNext ==
    \/ \E created \in BOOLEAN : ClientTouchDown(created)
    \/ \E id \in CallIds : ClientTouchMove(id)
    \/ \E id \in CallIds : ClientTouchUp(id)
    \/ \E busOk \in BOOLEAN : ClientClose(busOk)

ClientSpec == ClientInit /\ [][ClientNext]_vars

\* ------------------------------------------------------------ InputBackend
\* what a gesture has the client emit, one record per call of a client
\* primitive or of time.sleep.  A pointer position is a pair of fractions
\* with the denominator c: pointer_move_absolute(a / c, b / c)
Move(nx, ny, den) == [kind |-> "move", a |-> nx, b |-> ny, c |-> den]
Button(code, state) == [kind |-> "button", a |-> code, b |-> state, c |-> 0]
Key(code, state) == [kind |-> "key", a |-> code, b |-> state, c |-> 0]
Sleep(ms) == [kind |-> "sleep", a |-> ms, b |-> 0, c |-> 0]

\* _PRESSED, _RELEASED
PRESSED == 1
RELEASED == 0

Max(a, b) == IF a >= b THEN a ELSE b

RECURSIVE Concat(_)
Concat(seqs) == IF seqs = <<>> THEN <<>> ELSE Head(seqs) \o Concat(Tail(seqs))

\* _BTN_CODES[button]
BtnCode(button) ==
    CASE button = "left" -> 272
      [] button = "right" -> 273
      [] OTHER -> 274

\* str.lower() on the names the gestures are called with
Lower(name) ==
    CASE name = "Ctrl" -> "ctrl"
      [] name = "A" -> "a"
      [] name = "Return" -> "return"
      [] OTHER -> name

\* _MODIFIER_KEYS.get(name): 0 stands for None
ModifierKeys(name) ==
    CASE name = "shift" -> 42
      [] name \in {"ctrl", "control"} -> 29
      [] name = "alt" -> 56
      [] name \in {"super", "meta"} -> 125
      [] OTHER -> 0

\* _key_name_to_evdev(name): 0 stands for None
KeyNameToEvdev(name) ==
    CASE Lower(name) = "return" -> 28
      [] name \in {"a", "A"} -> 30
      [] name = "c" -> 46
      [] OTHER -> 0

\* _resolve_modifiers(modifiers); None and [] are <<>>
ResolveModifiers(modifiers) ==
    SelectSeq([i \in 1..Len(modifiers) |-> ModifierKeys(Lower(modifiers[i]))],
              LAMBDA c : c # 0)

\* _parse_key_combo(key), key given as key.split("+"): the modifier codes,
\* and the code of the last part that is not a modifier (0: None)
ParseKeyCombo(parts) ==
    LET main == SelectSeq(parts, LAMBDA q : ModifierKeys(Lower(q)) = 0)
    IN  [modifiers |-> ResolveModifiers(parts),
         keycode |-> IF main = <<>> THEN 0 ELSE KeyNameToEvdev(main[Len(main)])]

\* for mod in mod_codes: keyboard_key(mod, _PRESSED); sleep(0.01)
ModPresses(mod_codes) ==
    [i \in 1..(2 * Len(mod_codes)) |->
        IF i % 2 = 1 THEN Key(mod_codes[(i + 1) \div 2], PRESSED) ELSE Sleep(10)]

\* a release of the modifiers in the order they were pressed in
ModReleasesInOrder(mod_codes) ==
    [i \in 1..(2 * Len(mod_codes)) |->
        IF i % 2 = 1 THEN Sleep(10) ELSE Key(mod_codes[i \div 2], RELEASED)]

\* for mod in reversed(mod_codes): sleep(0.01); keyboard_key(mod, _RELEASED)
ModReleases(mod_codes) ==
    [i \in 1..(2 * Len(mod_codes)) |->
        IF i % 2 = 1 THEN Sleep(10)
        ELSE Key(mod_codes[Len(mod_codes) + 1 - i \div 2], RELEASED)]

\* a hold that sleeps for hold_ms whatever it is
HoldTimeUnclamped(hold_ms) == hold_ms

\* max(0.01, hold_ms / 1000.0), in milliseconds
HoldTime(hold_ms) == Max(10, hold_ms)

\* a click loop that makes one pair whatever the count
ClickPairsOnce(btn_code, click_count, hold_ms) ==
    <<Button(btn_code, PRESSED), Sleep(10), Button(btn_code, RELEASED)>>

\* for i in range(click_count): ... of mouse_click
ClickPairs(btn_code, click_count, hold_ms) ==
    Concat([i \in 1..click_count |->
               (IF i > 1 THEN <<Sleep(50)>> ELSE <<>>)
               \o <<Button(btn_code, PRESSED),
                    Sleep(IF hold_ms > 0 /\ i = click_count
                          THEN HoldTime(hold_ms) ELSE 10),
                    Button(btn_code, RELEASED)>>])

\* what InputBackend.mouse_click(x, y, button, double=, click_count=,
\* modifiers=, hold_ms=) emits
ClickEvents(p, button, double, click_count, modifiers, hold_ms) ==
    LET count == IF double /\ click_count = 1 THEN 2 ELSE click_count
        mod_codes == ResolveModifiers(modifiers)
    IN  <<Move(p[1], p[2], 1), Sleep(20)>>
        \o ModPresses(mod_codes)
        \o ClickPairs(BtnCode(button), count, hold_ms)
        \o ModReleases(mod_codes)

\* click_count = 3 if triple else (2 if double else 1) of the mouse_click tool
ToolClickCount(double, triple) == IF triple THEN 3 ELSE IF double THEN 2 ELSE 1

Abs(n) == IF n < 0 THEN 0 - n ELSE n

\* a step count that is the same for every segment
StepsFixed(dx, dy) == 10

\* steps = max(10, int((dx**2 + dy**2) ** 0.5 / 10))
Steps(dx, dy) ==
    LET n == dx * dx + dy * dy
        tenth == CHOOSE k \in 0..((Abs(dx) + Abs(dy)) \div 10 + 1) :
                     100 * k * k <= n /\ n < 100 * (k + 1) * (k + 1)
    IN  Max(10, tenth)

\* segments: start -> waypoints -> end, each (fx, fy, tx, ty, dwell_ms)
Segments(path) ==
    LET wps == path.waypoints
        pts == <<path.from>> \o [i \in 1..Len(wps) |-> <<wps[i][1], wps[i][2]>>]
                             \o <<path.to>>
    IN  [i \in 1..(Len(wps) + 1) |->
            [fx |-> pts[i][1], fy |-> pts[i][2],
             tx |-> pts[i + 1][1], ty |-> pts[i + 1][2],
             dwell_ms |-> IF i <= Len(wps) THEN wps[i][3] ELSE 0]]

\* the body of the loop over the segments: for i in range(1, steps + 1) the
\* sample at fraction i / steps, then the dwell
SegmentEvents(seg) ==
    LET dx == seg.tx - seg.fx
        dy == seg.ty - seg.fy
        steps == Steps(dx, dy)
    IN  [i \in 1..(2 * steps) |->
            IF i % 2 = 0 THEN Sleep(10)
            ELSE LET k == (i + 1) \div 2
                 IN  Move(seg.fx * steps + dx * k, seg.fy * steps + dy * k, steps)]
        \o (IF seg.dwell_ms > 0 THEN <<Sleep(seg.dwell_ms)>> ELSE <<>>)

\* a drag that presses the button before the modifiers
DragEventsButtonFirst(path, button, modifiers) ==
    LET mod_codes == ResolveModifiers(modifiers)
        segments == Segments(path)
    IN  <<Move(path.from[1], path.from[2], 1), Sleep(50)>>
        \o <<Button(BtnCode(button), PRESSED), Sleep(20)>>
        \o ModPresses(mod_codes)
        \o Concat([i \in 1..Len(segments) |-> SegmentEvents(segments[i])])
        \o <<Sleep(20), Button(BtnCode(button), RELEASED)>>
        \o ModReleases(mod_codes)

\* what InputBackend.mouse_drag(from_x, from_y, to_x, to_y, button,
\* modifiers, waypoints) emits
DragEvents(path, button, modifiers) ==
    LET mod_codes == ResolveModifiers(modifiers)
        segments == Segments(path)
    IN  <<Move(path.from[1], path.from[2], 1), Sleep(50)>>
        \o ModPresses(mod_codes)
        \o <<Button(BtnCode(button), PRESSED), Sleep(20)>>
        \o Concat([i \in 1..Len(segments) |-> SegmentEvents(segments[i])])
        \o <<Sleep(20), Button(BtnCode(button), RELEASED)>>
        \o ModReleases(mod_codes)

\* a combination that releases its modifiers before its main key
ComboEventsModsFirst(parts) ==
    LET k == ParseKeyCombo(parts)
    IN  IF k.keycode = 0 THEN <<>>
        ELSE ModPresses(k.modifiers)
             \o <<Key(k.keycode, PRESSED)>>
             \o ModReleases(k.modifiers)
             \o <<Sleep(10), Key(k.keycode, RELEASED)>>

\* what InputBackend.keyboard_key(key) emits
ComboEvents(parts) ==
    LET k == ParseKeyCombo(parts)
    IN  IF k.keycode = 0 THEN <<>>
        ELSE ModPresses(k.modifiers)
             \o <<Key(k.keycode, PRESSED), Sleep(10), Key(k.keycode, RELEASED)>>
             \o ModReleases(k.modifiers)

\* what InputBackend.keyboard_key_down(key) emits
KeyDownEvents(parts) ==
    LET k == ParseKeyCombo(parts)
    IN  ModPresses(k.modifiers)
        \o (IF k.keycode # 0 THEN <<Key(k.keycode, PRESSED), Sleep(10)>>
            ELSE <<>>)

\* what InputBackend.keyboard_key_up(key) emits
KeyUpEvents(parts) ==
    LET k == ParseKeyCombo(parts)
        n == Len(k.modifiers)
    IN  (IF k.keycode # 0 THEN <<Key(k.keycode, RELEASED), Sleep(10)>>
         ELSE <<>>)
        \o [i \in 1..(2 * n) |->
               IF i % 2 = 1 THEN Key(k.modifiers[n + 1 - (i + 1) \div 2], RELEASED)
               ELSE Sleep(10)]

\* pointer_scroll_discrete(dx, dy), pointer_scroll(dx / c, dy / c) and
\* pointer_scroll_stop() of the client
ScrollDiscrete(dx, dy) == [kind |-> "scroll_discrete", a |-> dx, b |-> dy, c |-> 0]
ScrollSmooth(nx, ny, den) == [kind |-> "scroll", a |-> nx, b |-> ny, c |-> den]
ScrollStop == [kind |-> "scroll_stop", a |-> 0, b |-> 0, c |-> 0]

\* _SCROLL_STEP_PIXELS
SCROLL_STEP_PIXELS == 15

\* a split that gives every increment the floor of the quotient
ScrollPartsFloor(d, steps) == [i \in 1..steps |-> d \div steps]

\* d // steps + (1 if i < d % steps else 0) if d else 0, for i in range(steps);
\* // and % round towards minus infinity, as \div and % do
ScrollParts(d, steps) ==
    [i \in 1..steps |->
        IF d = 0 THEN 0
        ELSE d \div steps + (IF i - 1 < d % steps THEN 1 ELSE 0)]

\* what InputBackend.mouse_scroll(x, y, delta, horizontal, discrete=, steps=)
\* emits
ScrollEvents(p, delta, horizontal, discrete, steps) ==
    LET dx == IF horizontal THEN delta ELSE 0
        dy == IF horizontal THEN 0 ELSE delta
        px == ScrollParts(dx, Max(steps, 0))
        py == ScrollParts(dy, Max(steps, 0))
    IN  <<Move(p[1], p[2], 1), Sleep(20)>>
        \o (IF discrete
            THEN IF steps > 1
                 THEN Concat([i \in 1..steps |->
                         (IF px[i] # 0 \/ py[i] # 0
                          THEN <<ScrollDiscrete(px[i], py[i])>> ELSE <<>>)
                         \o <<Sleep(10)>>])
                 ELSE <<ScrollDiscrete(dx, dy)>>
            ELSE IF steps > 1
                 THEN [i \in 1..(2 * steps) |->
                         IF i % 2 = 1
                         THEN ScrollSmooth(dx * SCROLL_STEP_PIXELS,
                                           dy * SCROLL_STEP_PIXELS, steps)
                         ELSE Sleep(10)]
                 ELSE <<ScrollSmooth(dx * SCROLL_STEP_PIXELS,
                                     dy * SCROLL_STEP_PIXELS, 1)>>)
        \o <<ScrollStop>>

\* the places of the key and button events for the code c in evs
EventsOf(evs, c) ==
    {i \in 1..Len(evs) : evs[i].kind = c[1] /\ evs[i].a = c[2]}

\* the codes an event sequence presses
PressedBy(evs) ==
    {<<evs[i].kind, evs[i].a>> :
        i \in {j \in 1..Len(evs) : evs[j].kind \in {"key", "button"}
                                   /\ evs[j].b = PRESSED}}

\* the codes an event sequence releases
ReleasedBy(evs) ==
    {<<evs[i].kind, evs[i].a>> :
        i \in {j \in 1..Len(evs) : evs[j].kind \in {"key", "button"}
                                   /\ evs[j].b = RELEASED}}

\* the keys and buttons the compositor sees pressed after the events evs: a
\* code is pressed when its last event is a press, and as before when evs
\* has no event for it
After(down, evs) ==
    {c \in down \cup PressedBy(evs) :
        LET at == EventsOf(evs, c)
        IN  IF at = {} THEN c \in down
            ELSE evs[CHOOSE i \in at : \A j \in at : j <= i].b = PRESSED}

\* a gesture handed its events to the client
Emit(evs, g) ==
    /\ eiPc = "ready"
    /\ events' = evs
    /\ pressed' = After(pressed, evs)
    /\ gesture' = g
    /\ before' = pressed
    /\ UNCHANGED <<hostVars, eisVars, clock>>

\* InputBackend.mouse_click
MouseClick(p, button, double, click_count, modifiers, hold_ms) ==
    /\ Emit(ClickEvents(p, button, double, click_count, modifiers, hold_ms),
            [name |-> "mouse_click", p |-> p, button |-> button,
             double |-> double, click_count |-> click_count,
             modifiers |-> modifiers, hold_ms |-> hold_ms])
    /\ UNCHANGED held

\* the mouse_click tool of the server: the count is taken from the flags
MouseClickTool(p, button, double, triple, modifiers, hold_ms) ==
    /\ Emit(ClickEvents(p, button, FALSE, ToolClickCount(double, triple),
                        modifiers, hold_ms),
            [name |-> "mouse_click", p |-> p, button |-> button,
             double |-> double, click_count |-> IF triple THEN 3 ELSE 1,
             modifiers |-> modifiers, hold_ms |-> hold_ms])
    /\ UNCHANGED held

\* InputBackend.mouse_drag
MouseDrag(path, button, modifiers) ==
    /\ Emit(DragEvents(path, button, modifiers),
            [name |-> "mouse_drag", path |-> path, button |-> button,
             modifiers |-> modifiers])
    /\ UNCHANGED held

\* InputBackend.keyboard_key
KeyboardKeyCombo(parts) ==
    /\ Emit(ComboEvents(parts), [name |-> "keyboard_key", key |-> parts])
    /\ UNCHANGED held

\* InputBackend.mouse_scroll
MouseScroll(p, delta, horizontal, discrete, steps) ==
    /\ Emit(ScrollEvents(p, delta, horizontal, discrete, steps),
            [name |-> "mouse_scroll", p |-> p, delta |-> delta,
             horizontal |-> horizontal, discrete |-> discrete, steps |-> steps])
    /\ UNCHANGED held

\* InputBackend.mouse_button_down: the button is held from now on
MouseButtonDown(p, button) ==
    /\ Emit(<<Move(p[1], p[2], 1), Sleep(20), Button(BtnCode(button), PRESSED)>>,
            [name |-> "mouse_button_down", p |-> p, button |-> button])
    /\ held' = held \cup {<<"button", BtnCode(button)>>}

\* InputBackend.mouse_button_up
MouseButtonUp(p, button) ==
    /\ Emit(<<Move(p[1], p[2], 1), Sleep(20), Button(BtnCode(button), RELEASED)>>,
            [name |-> "mouse_button_up", p |-> p, button |-> button])
    /\ held' = held \ {<<"button", BtnCode(button)>>}

\* InputBackend.keyboard_key_down: its keys are held from now on
KeyboardKeyDown(parts) ==
    /\ Emit(KeyDownEvents(parts), [name |-> "keyboard_key_down", key |-> parts])
    /\ held' = held \cup PressedBy(KeyDownEvents(parts))

\* InputBackend.keyboard_key_up
KeyboardKeyUp(parts) ==
    /\ Emit(KeyUpEvents(parts), [name |-> "keyboard_key_up", key |-> parts])
    /\ held' = held \ ReleasedBy(KeyUpEvents(parts))

\* the arguments the gestures are called with
Targets == {<<30, 40>>}
Buttons == {"left", "right"}
ModLists == {<<>>, <<"shift", "Ctrl">>, <<"ctrl", "control">>, <<"fn", "alt">>}
Holds == {0, 5, 10, 300}
Paths ==
    {[from |-> <<0, 0>>, to |-> <<30, 40>>, waypoints |-> <<>>],
     [from |-> <<0, 0>>, to |-> <<120, 160>>, waypoints |-> <<>>],
     [from |-> <<0, 0>>, to |-> <<150, 200>>,
      waypoints |-> << <<30, 40, 0>> >>],
     [from |-> <<0, 0>>, to |-> <<120, 160>>,
      waypoints |-> << <<110, 100, 50>>, <<30, 40, 0>> >>]}
HeldKeys == {<<"ctrl">>, <<"shift", "a">>, <<"ctrl", "a">>, <<"ctrl", "zz">>}
HeldMods == {<<>>, <<"ctrl">>}
Combos == {<<"ctrl", "c">>, <<"Return">>, <<"alt">>, <<"shift", "Ctrl", "a">>,
           <<"ctrl", "control", "c">>, <<"c", "shift">>, <<"ctrl", "zz">>,
           <<"zz">>, <<"alt", "shift">>}
Deltas == {-5, -2, 0, 2, 3, 7}

GestureInit ==
    /\ SessionIdle
    /\ files = {}
    /\ EnvIdle
    /\ GestureIdle
    /\ Negotiated(<<1, 1, 0>>)

GestureNext ==
    \/ \E p \in Targets, button \in Buttons, double \in BOOLEAN,
          click_count \in 1..MaxClicks, modifiers \in ModLists, hold_ms \in Holds :
          MouseClick(p, button, double, click_count, modifiers, hold_ms)
    \/ \E p \in Targets, double \in BOOLEAN, triple \in BOOLEAN :
          MouseClickTool(p, "left", double, triple, <<>>, 0)
    \/ \E path \in Paths, button \in Buttons, modifiers \in ModLists :
          MouseDrag(path, button, modifiers)
    \/ \E parts \in Combos : KeyboardKeyCombo(parts)
    \/ \E p \in Targets, delta \in Deltas, horizontal \in BOOLEAN,
          discrete \in BOOLEAN, steps \in 0..MaxScrollSteps :
          MouseScroll(p, delta, horizontal, discrete, steps)

\* the composed gestures, each with the range of its arguments
GestureSpec == GestureInit /\ [][GestureNext]_vars

\* the down and up tools, and composed gestures between them
HoldNext ==
    \/ \E p \in Targets, button \in Buttons : MouseButtonDown(p, button)
    \/ \E p \in Targets, button \in Buttons : MouseButtonUp(p, button)
    \/ \E parts \in HeldKeys : KeyboardKeyDown(parts)
    \/ \E parts \in HeldKeys : KeyboardKeyUp(parts)
    \/ \E p \in Targets, button \in Buttons, modifiers \in HeldMods :
          MouseClick(p, button, FALSE, 1, modifiers, 0)
    \/ \E path \in Paths, button \in Buttons, modifiers \in HeldMods :
          MouseDrag(path, button, modifiers)
    \/ \E parts \in Combos : KeyboardKeyCombo(parts)

HoldSpec == GestureInit /\ [][HoldNext]_vars

\* ---------------------------------------------------------- touch gestures
\* the calls a touch gesture makes, one record per call: touch_down,
\* touch_move and touch_up of the client with the position a / c, b / c, for
\* the id-th touch the gesture puts down, and time.sleep(a / c ms)
TDown(f, nx, ny, den) == [kind |-> "touch_down", a |-> nx, b |-> ny, c |-> den, id |-> f]
TMotion(f, nx, ny, den) == [kind |-> "touch_motion", a |-> nx, b |-> ny, c |-> den, id |-> f]
TUp(f) == [kind |-> "touch_up", a |-> 0, b |-> 0, c |-> 1, id |-> f]
TSleep(num, den) == [kind |-> "sleep", a |-> num, b |-> 0, c |-> den, id |-> 0]

\* steps = max(10, duration_ms // 10)
TouchSteps10(duration_ms) == Max(10, duration_ms \div 10)

\* step_delay = max(0.001, duration_ms / 1000.0 / steps), in milliseconds
StepDelay(duration_ms) ==
    TSleep(Max(TouchSteps10(duration_ms), duration_ms), TouchSteps10(duration_ms))

\* InputBackend.touch_tap(x, y, hold_ms)
TapScript(p, hold_ms) ==
    <<TDown(1, p[1], p[2], 1),
      TSleep(IF hold_ms > 0 THEN HoldTime(hold_ms) ELSE 10, 1),
      TUp(1)>>

\* InputBackend.touch_swipe(from_x, from_y, to_x, to_y, duration_ms)
SwipeScript(from, to, duration_ms) ==
    LET steps == TouchSteps10(duration_ms)
        dx == to[1] - from[1]
        dy == to[2] - from[2]
    IN  <<TDown(1, from[1], from[2], 1)>>
        \o [i \in 1..(2 * steps) |->
               IF i % 2 = 0 THEN StepDelay(duration_ms)
               ELSE LET k == (i + 1) \div 2
                    IN  TMotion(1, from[1] * steps + dx * k,
                                from[2] * steps + dy * k, steps)]
        \o <<TUp(1)>>

\* a pinch that lifts its first finger only
PinchScriptOneUp(center, start_distance, end_distance, duration_ms) ==
    LET steps == TouchSteps10(duration_ms)
        half(k) == start_distance * steps + (end_distance - start_distance) * k
    IN  <<TDown(1, 2 * center[1] - start_distance, 2 * center[2], 2),
          TDown(2, 2 * center[1] + start_distance, 2 * center[2], 2)>>
        \o [i \in 1..(3 * steps) |->
               LET k == (i + 2) \div 3
               IN  CASE i % 3 = 1 -> TMotion(1, 2 * steps * center[1] - half(k),
                                            2 * steps * center[2], 2 * steps)
                     [] i % 3 = 2 -> TMotion(2, 2 * steps * center[1] + half(k),
                                            2 * steps * center[2], 2 * steps)
                     [] OTHER -> StepDelay(duration_ms)]
        \o <<TUp(1)>>

\* InputBackend.touch_pinch(center_x, center_y, start_distance,
\* end_distance, duration_ms): half = half_start + (end_distance / 2.0 -
\* half_start) * frac is (start * steps + (end - start) * i) / (2 * steps)
PinchScript(center, start_distance, end_distance, duration_ms) ==
    LET steps == TouchSteps10(duration_ms)
        half(k) == start_distance * steps + (end_distance - start_distance) * k
    IN  <<TDown(1, 2 * center[1] - start_distance, 2 * center[2], 2),
          TDown(2, 2 * center[1] + start_distance, 2 * center[2], 2)>>
        \o [i \in 1..(3 * steps) |->
               LET k == (i + 2) \div 3
               IN  CASE i % 3 = 1 -> TMotion(1, 2 * steps * center[1] - half(k),
                                            2 * steps * center[2], 2 * steps)
                     [] i % 3 = 2 -> TMotion(2, 2 * steps * center[1] + half(k),
                                            2 * steps * center[2], 2 * steps)
                     [] OTHER -> StepDelay(duration_ms)]
        \o <<TUp(1), TUp(2)>>

\* offset = (f - (fingers - 1) / 2.0) * finger_spacing with finger_spacing =
\* 20, for the finger f of range(fingers)
FingerOffset(f, fingers) == (2 * f - (fingers - 1)) * 10

\* InputBackend.touch_multi_swipe(from_x, from_y, to_x, to_y, fingers,
\* duration_ms); the fingers are numbered from 1 here
MultiSwipeScript(from, to, fingers, duration_ms) ==
    LET steps == TouchSteps10(duration_ms)
        dx == to[1] - from[1]
        dy == to[2] - from[2]
        row == fingers + 1
    IN  [f \in 1..fingers |->
            TDown(f, from[1], from[2] + FingerOffset(f - 1, fingers), 1)]
        \o [i \in 1..(row * steps) |->
               LET k == (i + row - 1) \div row
                   f == i - (k - 1) * row
               IN  IF f = row THEN StepDelay(duration_ms)
                   ELSE TMotion(f, from[1] * steps + dx * k,
                                (from[2] + FingerOffset(f - 1, fingers)) * steps
                                + dy * k, steps)]
        \o [f \in 1..fingers |-> TUp(f)]

TouchGestures == {"touch_tap", "touch_swipe", "touch_pinch", "touch_multi_swipe"}

\* a touch gesture runs its calls on the client.  touch_down takes the next
\* id for each touch it creates; the fail-th touch_down of the gesture finds
\* ei_device_touch_new returning no touch object and raises RuntimeError,
\* which ends the gesture there (the gestures have no handler around their
\* calls).  The ids a gesture moves and lifts are the ones its touch_down
\* calls returned, so touch_move and touch_up find them active.
RunTouchBody(script, fingers, fail) ==
    LET base == next_touch_id
        failed == fail \in 1..fingers
        ran == IF failed THEN SubSeq(script, 1, fail - 1) ELSE script
        evs == [i \in 1..Len(ran) |->
                   IF ran[i].kind = "sleep" THEN ran[i]
                   ELSE [ran[i] EXCEPT !.id = base + @ - 1]]
        at(kind) == {evs[i].id : i \in {j \in 1..Len(evs) : evs[j].kind = kind}}
        ups(id) == Cardinality({i \in 1..Len(evs) :
                                   evs[i].kind = "touch_up" /\ evs[i].id = id})
        made == Cardinality(at("touch_down"))
    IN  /\ eiPc = "ready"
        /\ next_touch_id + fingers <= MaxGestureIds
        /\ events' = evs
        /\ next_touch_id' = base + made
        /\ active_touches' =
              {t \in active_touches \cup {<<id, TouchDeviceNow>> : id \in at("touch_down")} :
                  t[1] \notin at("touch_up")}
        /\ touchLog' = touchLog \o [f \in 1..made |->
                          [id |-> base + f - 1, up |-> ups(base + f - 1),
                           unref |-> ups(base + f - 1)]]
        /\ opRet' = IF failed THEN "RuntimeError" ELSE "ok"
        /\ before' = pressed
        /\ UNCHANGED <<hostVars, eiPc, ei, cookie, registry, wire, queue, sent,
                       loopEnd, processed, refs, ctxAlive, channel, calls, eiErr,
                       nOps, lastOp, closeTrace, pressed, held, clock>>

\* the record of a touch gesture: its name, the number of touches it puts
\* down, the id it starts at and the touches that were active before it
TouchGesture(g, fingers) ==
    [name |-> g, fingers |-> fingers, base |-> next_touch_id,
     active |-> active_touches]

\* InputBackend.touch_tap
TouchTap(p, hold_ms, fail) ==
    /\ gesture' = TouchGesture("touch_tap", 1)
    /\ RunTouchBody(TapScript(p, hold_ms), 1, fail)

\* InputBackend.touch_swipe
TouchSwipe(from, to, duration_ms, fail) ==
    /\ gesture' = TouchGesture("touch_swipe", 1)
    /\ RunTouchBody(SwipeScript(from, to, duration_ms), 1, fail)

\* InputBackend.touch_pinch
TouchPinch(center, start_distance, end_distance, duration_ms, fail) ==
    /\ gesture' = TouchGesture("touch_pinch", 2)
    /\ RunTouchBody(PinchScript(center, start_distance, end_distance,
                                duration_ms), 2, fail)

\* InputBackend.touch_multi_swipe
TouchMultiSwipe(from, to, fingers, duration_ms, fail) ==
    /\ gesture' = [name |-> "touch_multi_swipe", fingers |-> fingers,
                   base |-> next_touch_id, active |-> active_touches,
                   from |-> from, to |-> to,
                   steps |-> TouchSteps10(duration_ms)]
    /\ RunTouchBody(MultiSwipeScript(from, to, fingers, duration_ms), fingers, fail)

Durations == {50, 120}
Distances == {<<40, 120>>, <<75, 20>>}

TouchInit ==
    /\ SessionIdle
    /\ files = {}
    /\ EnvIdle
    /\ GestureIdle
    /\ \E r \in Registries : Negotiated(r)

TouchNext ==
    \/ \E p \in Targets, hold_ms \in {0, 300}, fail \in 0..1 : TouchTap(p, hold_ms, fail)
    \/ \E to \in Targets, duration_ms \in Durations, fail \in 0..1 :
          TouchSwipe(<<0, 0>>, to, duration_ms, fail)
    \/ \E c \in Targets, d \in Distances, duration_ms \in Durations, fail \in 0..2 :
          TouchPinch(c, d[1], d[2], duration_ms, fail)
    \/ \E to \in Targets, fingers \in 1..MaxFingers, duration_ms \in Durations,
          fail \in 0..MaxFingers :
          TouchMultiSwipe(<<0, 0>>, to, fingers, duration_ms, fail)

\* the touch gestures on a negotiated client
TouchSpec == TouchInit /\ [][TouchNext]_vars

\* ================================================================== claims
Range(seq) == {seq[i] : i \in 1..Len(seq)}
IsPrefix(a, b) == Len(a) <= Len(b) /\ SubSeq(b, 1, Len(a)) = a

StartPcs == {"start_popen", "start_readline", "start_wait", "start_ready",
             "start_fail_socket", "start_fail_ready"}
StopPcs  == {"stop_term", "stop_wait", "stop_killpg", "stop_kill", "stop_wait2",
             "stop_unlink", "stop_clear"}

\* C1: a Session.start call made while the session is running (it has a
\* process and the process has not exited) fails with the already-running
\* error and changes nothing: the process handle, the SessionInfo and the
\* socket name stay as they were, no socket artifact is removed and no
\* process is launched or signalled.
C1_StartWhileRunningRefused ==
    [][ (Running /\ \E name \in ConfigNames : Start(name))
        => /\ ret' = Ret("start", "AlreadyRunning")
           /\ pc' = "idle"
           /\ UNCHANGED <<process, info, socket_name, files, grp, nextPid>> ]_vars

\* a refused start has returned on a session that is still running
C1_Witness ==
    /\ pc = "idle"
    /\ ret = Ret("start", "AlreadyRunning")
    /\ Running
    /\ info.set

\* C2: a direct stop call on a session that was never started, that follows
\* a failed start, or that follows a stop, sends no signal (neither SIGTERM
\* nor SIGKILL to the group, nor a kill of the top-level process), returns
\* without an error, and leaves the session Stopped: no process handle and
\* no SessionInfo.
C2_StopIdempotent ==
    stopPre \in {"never_started", "failed_start", "stopped"}
    => /\ Range(stopTrace) \cap {"SIGTERM", "SIGKILL", "kill"} = {}
       /\ (pc = "idle" /\ ret.op = "stop")
              => (ret.res = "ok" /\ process = 0 /\ info = NoInfo)

\* a second stop has returned after a stop that tore a started session down
C2_Witness ==
    /\ pc = "idle"
    /\ ret = Ret("stop", "ok")
    /\ stopPre = "stopped"
    /\ nextPid > 1

\* a stop has returned after a start that failed
C2_WitnessFailedStart ==
    /\ pc = "idle"
    /\ ret = Ret("stop", "ok")
    /\ stopPre = "failed_start"
    /\ nextPid > 1

\* C3: once Session.stop has returned, no member of the process group of
\* the handle it tore down is alive.
C3_NoMemberAliveAfterStop ==
    (pc = "idle" /\ ret.op = "stop" /\ stopped # 0) => ~GroupAlive(stopped)

\* C4: Session.start never hangs: whatever the wrapper does or fails to do
\* (never prints the bus-address line, never creates the socket, never
\* prints the readiness marker, exits early), a start call that has begun
\* ends, by returning a SessionInfo or by raising a startup error.
C4_StartTerminates ==
    (pc \in StartPcs) ~> (pc = "idle")

\* C5: when start fails because the socket did not become ready, the error
\* it raises carries the text the wrapper had written to its error stream
\* by the time the wait gave up.
C5_ErrorCarriesStderr ==
    (pc = "idle" /\ ret.op = "start" /\ ret.res = "KWinFailed")
        => IsPrefix(errAtFail, ret.stderr)

\* a start call has failed for one of: socket timeout, wrapper exited before
\* the socket appeared, wrong readiness marker
StartFailedAfterLaunch ==
    /\ pc = "idle"
    /\ ret.op = "start"
    /\ ret.res \in {"KWinFailed", "SetupFailed"}

\* C6: after a start that failed by socket timeout, by the wrapper exiting
\* before the socket appeared, or by a wrong readiness marker, the session
\* is cleaned up and Stopped: the wrapper's process group was signalled, no
\* process handle and no SessionInfo are left, the socket and lock files
\* are gone, and is_running is false.
C6_FailedStartCleansUp ==
    StartFailedAfterLaunch
        => /\ stopped # 0
           /\ grp[stopped].term
           /\ process = 0
           /\ info = NoInfo
           /\ \A sfx \in Suffixes : <<socket_name, sfx>> \notin files
           /\ ~is_running

\* C7: start returns a SessionInfo only after it went, in this order,
\* through: stale artifacts unlinked, wrapper launched, socket file seen,
\* readiness marker read; the SessionInfo names the launched process and
\* the socket, and the socket file exists.
C7_StartOrder ==
    (pc = "idle" /\ ret.op = "start" /\ ret.res = "ok")
        => /\ startTrace = <<"unlink", "launch", "socket", "ready">>
           /\ info.set
           /\ info.kwin_pid = process
           /\ info.wayland_socket = socket_name
           /\ <<socket_name, "">> \in files

\* a start has returned a SessionInfo where a stale socket had to be removed
C7_Witness ==
    /\ pc = "idle"
    /\ ret.op = "start"
    /\ ret.res = "ok"
    /\ info.set
    /\ socket_name = "cfgsock"

\* the step orders of stop
StopOrders ==
    { <<"SIGTERM", "exited", "unlink", "clear">>,
      <<"lookup_failed", "exited", "unlink", "clear">>,
      <<"SIGTERM", "timeout", "SIGKILL", "kill", "wait2", "unlink", "clear">> }

Recorded == IF info.set /\ info.app_pid # 0 THEN {info.app_pid} ELSE {}

\* C10: every pid returned by a launch call on the running session is still
\* recorded against the session.
C10_LaunchedPidsRecorded ==
    launched \subseteq Recorded

\* C11: the environment launch_app hands to a launched process satisfies
\* the environment contract, whatever os.environ and extra_env hold: the
\* virtual-display variable is the session's socket name, the session-bus
\* variable is the session's bus address, the platform hint and the two
\* accessibility flags have their forced values, and DISPLAY is not set.
C11_LaunchEnvContract ==
    handedEnv.to = "app"
        => /\ handedEnv.env["WAYLAND_DISPLAY"] = socket_name
           /\ handedEnv.env["DBUS_SESSION_BUS_ADDRESS"] = info.dbus_address
           /\ handedEnv.env["QT_QPA_PLATFORM"] = "wayland"
           /\ handedEnv.env["QT_LINUX_ACCESSIBILITY_ALWAYS_ON"] = "1"
           /\ handedEnv.env["QT_ACCESSIBILITY"] = "1"
           /\ handedEnv.env["DISPLAY"] = Unset

\* native calls that use a device handle
DeviceCalls(seq) == {i \in 1..Len(seq) : seq[i].call # "dispatch"}
StartEmuCount(d) ==
    Cardinality({i \in 1..Len(calls) :
        calls[i].call = "start_emulating" /\ calls[i].dev = d})

\* C12: when the handshake loop has ended (early exit, timeout or dispatch
\* error) exactly one outcome follows.  With a pointer and a keyboard
\* registered the negotiation succeeds and start-emulating is issued exactly
\* once on each distinct registered device (pointer, keyboard, touch if
\* any) and on nothing else; otherwise it fails, with the no-pointer error
\* when the pointer is missing and the no-keyboard error when only the
\* keyboard is, and start-emulating is issued on no device.
C12_LoopOutcome ==
    (loopEnd # "none" /\ eiPc # "post" /\ nOps = 0)
        => IF pointer # 0 /\ keyboard # 0
           THEN /\ eiErr = "ok"
                /\ eiPc = "ready"
                /\ StartEmuCount(0) = 0
                /\ \A d \in Devices :
                      StartEmuCount(d) =
                          (IF d \in {pointer, keyboard, touch_device} THEN 1 ELSE 0)
           ELSE /\ eiPc = "failed"
                /\ eiErr = (IF pointer = 0 THEN "no_pointer" ELSE "no_keyboard")
                /\ \A i \in 1..Len(calls) : calls[i].call # "start_emulating"

\* negotiation succeeded with one device in the pointer and the keyboard
\* slot and another one in the touch slot
C12_Witness ==
    /\ eiPc = "ready"
    /\ nOps = 0
    /\ pointer = keyboard
    /\ touch_device \notin {0, pointer}

\* negotiation failed after a timeout for lack of a keyboard only
C12_WitnessNoKeyboard ==
    /\ eiPc = "failed"
    /\ loopEnd = "timeout"
    /\ eiErr = "no_keyboard"
    /\ pointer # 0

\* the handshake has ended, by success or by a failure of the negotiation
NegotiationEnded ==
    \/ eiPc \in {"ready", "closed"}
    \/ eiPc = "failed" /\ eiErr \in {"disconnected", "no_pointer", "no_keyboard"}

\* C13: whatever the arrival order and the split across dispatch passes,
\* once the loop has taken from the channel a device-added of a
\* keyboard-capable device and one of an absolute-pointer-capable device and
\* no disconnect, the negotiation succeeds, and it has registered one
\* pointer device (absolute-pointer-capable) and one keyboard device
\* (keyboard-capable).
C13_AnyOrderSucceeds ==
    ( /\ NegotiationEnded
      /\ nOps = 0
      /\ \E d \in Devices : /\ "keyboard" \in CapsOf(d)
                            /\ Ev("device_added", d) \in processed
      /\ \E d \in Devices : /\ "pointer_absolute" \in CapsOf(d)
                            /\ Ev("device_added", d) \in processed
      /\ Disconnect \notin processed )
        => /\ eiErr = "ok"
           /\ pointer \in Devices
           /\ "pointer_absolute" \in CapsOf(pointer)
           /\ Ev("device_added", pointer) \in processed
           /\ keyboard \in Devices
           /\ "keyboard" \in CapsOf(keyboard)
           /\ Ev("device_added", keyboard) \in processed

\* negotiation succeeded on a stream of a seat-added event, the device-added
\* events of a keyboard and of an absolute pointer and their device-resumed
\* events, all taken by the loop
C13_Witness ==
    /\ eiPc = "ready"
    /\ pointer = 3
    /\ keyboard = 2
    /\ processed = {SeatAdded, Ev("device_added", 2), Ev("device_added", 3),
                    Ev("device_resumed", 2), Ev("device_resumed", 3)}

\* C14: the registry holds at most one device per capability class and the
\* first device seen with the capability wins: a slot holds nothing or a
\* device that has the slot's capability (the pointer slot only an
\* absolute-pointer-capable one), and no step of the handshake changes a
\* slot that is filled.
C14_FirstSeenWins ==
    /\ [](/\ (pointer # 0 => "pointer_absolute" \in CapsOf(pointer))
          /\ (keyboard # 0 => "keyboard" \in CapsOf(keyboard))
          /\ (touch_device # 0 => "touch" \in CapsOf(touch_device)))
    /\ [][ (eiPc \in {"select0", "select", "drain", "post"})
             => /\ (pointer # 0 => pointer' = pointer)
                /\ (keyboard # 0 => keyboard' = keyboard)
                /\ (touch_device # 0 => touch_device' = touch_device) ]_vars

\* two absolute-pointer-capable devices were added and the pointer slot
\* holds the one that is not the lowest-numbered: the one seen first
C14_Witness ==
    /\ {Ev("device_added", 1), Ev("device_added", 3)} \subseteq processed
    /\ pointer = 3
    /\ keyboard = 1

\* C15: a disconnect event taken during the handshake aborts it at once
\* with the negotiation error: no start-emulating is issued, the failure
\* stands even when a pointer and a keyboard were registered before it,
\* and afterwards nothing more is taken from the queue, no slot changes and
\* the handshake is not run again.
C15_DisconnectAborts ==
    /\ [](Disconnect \in processed
            => /\ eiErr = "disconnected"
               /\ eiPc = "failed"
               /\ \A i \in 1..Len(calls) : calls[i].call # "start_emulating")
    /\ [][ (Disconnect \in processed)
             => UNCHANGED <<queue, processed, registry, refs, calls, eiErr, eiPc>> ]_vars

\* the handshake was aborted by a disconnect with both slots filled and an
\* event still queued behind the disconnect
C15_Witness ==
    /\ eiErr = "disconnected"
    /\ pointer # 0
    /\ keyboard # 0
    /\ queue # <<>>

\* C16: when the construction of the client fails after the channel was
\* obtained, nothing is leaked: no device reference is held, the cookie was
\* released through the compositor's disconnect call, and the protocol
\* context is gone.
C16_FailedConnectReleases ==
    (eiPc = "failed" /\ channel # "none")
        => /\ \A d \in Devices : refs[d] = 0
           /\ channel = "released"
           /\ ~ctxAlive

\* C17: a device is used only after it resumed: every native call on a
\* device handle follows the taking of that device's device-resumed event,
\* and negotiation does not succeed while the pointer or the keyboard it
\* registered has not resumed.
C17_UsedOnlyAfterResumed ==
    /\ (\A i \in DeviceCalls(calls) :
          calls[i].dev # 0 => Ev("device_resumed", calls[i].dev) \in processed)
    /\ (eiPc = "ready"
          => /\ Ev("device_resumed", pointer) \in processed
             /\ Ev("device_resumed", keyboard) \in processed)

PrimitiveCalls == PointerKinds \cup {"keyboard_key", "touch_down", "touch_motion",
                                     "touch_up"}

\* C19: every primitive an Event Injector operation issues (absolute
\* motion, button, scroll delta, scroll discrete, scroll stop, key, touch
\* down, touch motion, touch up) is followed at once, before any other
\* primitive, by a frame on the device the primitive targeted and then by a
\* dispatch.  (The touch-ups close issues are not an injector operation.)
C19_FrameThenDispatch ==
    \A i \in 1..Len(calls) :
        (calls[i].call \in PrimitiveCalls /\ calls[i].op # "close")
            => /\ i + 2 <= Len(calls)
               /\ calls[i + 1].call = "frame"
               /\ calls[i + 1].dev = calls[i].dev
               /\ calls[i + 2].call = "dispatch"

\* a touch was put down and moved on a touch device other than the pointer
C19_Witness ==
    /\ opRet = "ok"
    /\ touch_device \notin {0, pointer}
    /\ \E i \in 1..Len(calls) : calls[i].call = "touch_motion"

\* C20: pointer and keyboard operations fail closed: with no device in the
\* slot it needs (as after close released the devices) the operation is
\* refused, so no pointer or keyboard operation ever issues a native call
\* on an absent (zero) device handle.
C20_FailClosed ==
    \A i \in DeviceCalls(calls) :
        calls[i].op \in PointerKinds \cup {"keyboard_key"} => calls[i].dev # 0


\* C21: the touch ids successful touch-downs return are pairwise distinct and
\* strictly increasing in call order, and an id is not handed out again
\* after its touch was released; a touch-down that fails hands out no id,
\* consumes none, and adds nothing to the active-touch map.
C21_TouchIdsFresh ==
    /\ [](\A i, j \in 1..Len(touchLog) :
             i < j => touchLog[i].id < touchLog[j].id)
    /\ [][ (nOps' = nOps + 1 /\ lastOp'.op = "touch_down")
             => IF opRet' = "ok"
                THEN /\ lastOp'.id = next_touch_id
                     /\ ActiveIds' = ActiveIds \cup {lastOp'.id}
                     /\ \A i \in 1..Len(touchLog) : touchLog[i].id < lastOp'.id
                ELSE /\ lastOp'.id = -1
                     /\ next_touch_id' = next_touch_id
                     /\ active_touches' = active_touches
                     /\ touchLog' = touchLog ]_vars

\* a touch went down and up, a second went down with a larger id, and a
\* third touch-down failed
C21_Witness ==
    /\ Len(touchLog) = 2
    /\ touchLog[1].up = 1
    /\ touchLog[2].id > touchLog[1].id
    /\ lastOp.op = "touch_down"
    /\ opRet = "RuntimeError"
    /\ next_touch_id = 2

\* C22: touch-move and touch-up on an id that is not active fail with the
\* unknown-touch error, emit no event and leave the active-touch map as it
\* was; touch-up on an active id removes it (so a second touch-up on it
\* fails), and touch-move on an active id leaves the map unchanged.
C22_UnknownTouchRefused ==
    [][ (nOps' = nOps + 1 /\ lastOp'.op \in {"touch_move", "touch_up"})
          => IF lastOp'.id \in ActiveIds
             THEN /\ opRet' = "ok"
                  /\ calls' # calls
                  /\ (lastOp'.op = "touch_up"
                        => ActiveIds' = ActiveIds \ {lastOp'.id})
                  /\ (lastOp'.op = "touch_move"
                        => active_touches' = active_touches)
             ELSE /\ opRet' = "ValueError"
                  /\ calls' = calls
                  /\ active_touches' = active_touches ]_vars

\* a second touch-up on an id that a touch-up released failed, while another
\* touch stayed active
C22_Witness ==
    /\ eiPc = "ready"
    /\ lastOp = [op |-> "touch_up", id |-> 0]
    /\ opRet = "ValueError"
    /\ Len(touchLog) = 2
    /\ touchLog[1].up = 1
    /\ ActiveIds = {1}

\* C23: every native touch object a successful touch-down created receives
\* exactly one touch-up and exactly one release, through its touch-up call or
\* through the forced release at close: none while it is active, one of each
\* once it is not, and after close the active-touch map is empty.
C23_TouchReleasedOnce ==
    /\ \A i \in 1..Len(touchLog) :
          IF touchLog[i].id \in ActiveIds
          THEN touchLog[i].up = 0 /\ touchLog[i].unref = 0
          ELSE touchLog[i].up = 1 /\ touchLog[i].unref = 1
    /\ lastOp.op = "close"
          => /\ active_touches = {}
             /\ \A i \in 1..Len(touchLog) :
                   touchLog[i].up = 1 /\ touchLog[i].unref = 1

\* of two touches one was released by touch-up and the other by close
C23_Witness ==
    /\ lastOp.op = "close"
    /\ Len(touchLog) = 2
    /\ \E i \in 1..Len(closeTrace) : closeTrace[i] = Step("touch_unref", 1)
    /\ \A i \in 1..Len(closeTrace) : closeTrace[i] # Step("touch_unref", 0)

\* the place of a native release in the order of close
Rank(s) ==
    CASE s.step \in {"touch_up", "touch_unref"} -> 1
      [] s.step \in {"stop_emulating", "device_unref"} ->
            (CASE s.of = "touch" -> 2 [] s.of = "pointer" -> 3 [] OTHER -> 4)
      [] s.step = "disconnect" -> 5
      [] OTHER -> 6

\* C24: close releases in a fixed order: the lingering touches first, then
\* the devices (stop-emulating, then release) in the order touch, pointer,
\* keyboard, then the channel cookie through the disconnect call, and the
\* context last.
C24_CloseOrder ==
    /\ \A i, j \in 1..Len(closeTrace) :
          i < j => Rank(closeTrace[i]) <= Rank(closeTrace[j])
    /\ \A i \in 1..Len(closeTrace) :
          closeTrace[i].step = "stop_emulating"
             => /\ i < Len(closeTrace)
                /\ closeTrace[i + 1] = Step("device_unref", closeTrace[i].of)
    /\ \A i \in 1..Len(closeTrace) :
          closeTrace[i].step = "touch_up"
             => /\ i < Len(closeTrace)
                /\ closeTrace[i + 1] = Step("touch_unref", closeTrace[i].of)

\* a close released a lingering touch, the three device slots, the cookie
\* and the context
C24_Witness ==
    /\ lastOp.op = "close"
    /\ Len(closeTrace) = 10
    /\ closeTrace[1].step = "touch_up"
    /\ closeTrace[3] = Step("stop_emulating", "touch")
    /\ closeTrace[9].step = "disconnect"
    /\ closeTrace[10].step = "ei_unref"


\* the events of one kind in an event sequence, in order
OfKind(evs, kind) == SelectSeq(evs, LAMBDA e : e.kind = kind)

\* the places of the button presses / releases, key presses / releases and
\* pointer moves in the events of the last gesture
Places(kind, state) ==
    {i \in 1..Len(events) : events[i].kind = kind /\ events[i].b = state}
MovePlaces == {i \in 1..Len(events) : events[i].kind = "move"}

First(places) == CHOOSE i \in places : \A j \in places : i <= j
Last(places) == CHOOSE i \in places : \A j \in places : j <= i

\* C25: a click with click_count = N >= 1 emits exactly one pointer move, to
\* the target and before everything else, and then exactly N press/release
\* pairs of the chosen button, alternating and starting with a press, so the
\* button is released when the click returns; the double flag with the
\* default count of 1 gives N = 2.
C25_ClickPairs ==
    gesture.name = "mouse_click"
      => LET N == IF gesture.double /\ gesture.click_count = 1 THEN 2
                  ELSE gesture.click_count
             bs == OfKind(events, "button")
         IN  /\ OfKind(events, "move") = <<Move(gesture.p[1], gesture.p[2], 1)>>
             /\ events[1].kind = "move"
             /\ Len(bs) = 2 * N
             /\ \A i \in 1..Len(bs) :
                   bs[i] = Button(BtnCode(gesture.button),
                                  IF i % 2 = 1 THEN PRESSED ELSE RELEASED)
             /\ <<"button", BtnCode(gesture.button)>> \notin pressed

\* a click with the double flag and the default count made two pairs
C25_Witness ==
    /\ gesture.name = "mouse_click"
    /\ gesture.double
    /\ gesture.click_count = 1
    /\ Len(OfKind(events, "button")) = 4

\* the sum of the sleeps between two places of an event sequence
RECURSIVE SleptBetween(_, _, _)
SleptBetween(evs, from, to) ==
    IF from >= to THEN 0
    ELSE (IF evs[from].kind = "sleep" THEN evs[from].a ELSE 0)
         + SleptBetween(evs, from + 1, to)

\* the time the button stays pressed in the final pair of a click, in ms
FinalPressTime(evs) ==
    LET downs == {i \in 1..Len(evs) : evs[i].kind = "button" /\ evs[i].b = PRESSED}
        ups == {i \in 1..Len(evs) : evs[i].kind = "button" /\ evs[i].b = RELEASED}
    IN  SleptBetween(evs, Last(downs), Last(ups))

\* the short press time: that of the same click made with hold_ms = 0
DefaultPressTime ==
    FinalPressTime(ClickEvents(gesture.p, gesture.button, gesture.double,
                               gesture.click_count, gesture.modifiers, 0))

\* C26 as stated: for every hold_ms > 0 the button stays pressed in the
\* final pair of a click for strictly longer than the default short press
\* time of a click with hold_ms = 0.
C26_HoldLongerThanDefault ==
    (gesture.name = "mouse_click" /\ gesture.hold_ms > 0)
      => FinalPressTime(events) > DefaultPressTime

\* C26 as amended: for every hold_ms > 0 the button stays pressed in the
\* final pair for the larger of hold_ms and the default short press time:
\* never shorter than the default, strictly longer exactly when hold_ms
\* exceeds it, and only in the final pair.
C26_HoldAtLeastDefault ==
    (gesture.name = "mouse_click" /\ gesture.hold_ms > 0)
      => /\ FinalPressTime(events) = Max(gesture.hold_ms, DefaultPressTime)
         /\ FinalPressTime(events) >= DefaultPressTime
         /\ (FinalPressTime(events) > DefaultPressTime
               <=> gesture.hold_ms > DefaultPressTime)

\* a click with a hold below the default press time held for the default
C26_Witness ==
    /\ gesture.name = "mouse_click"
    /\ gesture.hold_ms = 5
    /\ gesture.click_count = 2
    /\ FinalPressTime(events) = DefaultPressTime


\* the corner points of the path of a drag: origin, waypoints, destination
Corners(path) ==
    <<path.from>>
    \o [i \in 1..Len(path.waypoints) |->
           <<path.waypoints[i][1], path.waypoints[i][2]>>]
    \o <<path.to>>

\* max(10, floor(length / 10)) for the segment from f to t
SamplesOf(f, t) ==
    LET n == (t[1] - f[1]) * (t[1] - f[1]) + (t[2] - f[2]) * (t[2] - f[2])
        tenth == CHOOSE k \in 0..(n \div 100) :
                     100 * k * k <= n /\ n < 100 * (k + 1) * (k + 1)
    IN  IF tenth > 10 THEN tenth ELSE 10

\* the motion samples the segments 1..k of a path have together
RECURSIVE SamplesUpTo(_, _)
SamplesUpTo(corners, k) ==
    IF k = 0 THEN 0
    ELSE SamplesUpTo(corners, k - 1) + SamplesOf(corners[k], corners[k + 1])

\* C27: a drag with K waypoints interpolates K+1 segments in waypoint order;
\* segment k has max(10, floor(length / 10)) motion samples, the last of
\* which is exactly the end point of the segment, so the final sample is the
\* destination; the button is pressed before the first sample and released
\* after the last.
C27_DragSegments ==
    gesture.name = "mouse_drag"
      => LET corners == Corners(gesture.path)
             K == Len(gesture.path.waypoints)
             moves == OfKind(events, "move")
             samples == Tail(moves)
         IN  /\ Len(samples) = SamplesUpTo(corners, K + 1)
             /\ \A k \in 1..(K + 1) :
                   /\ SamplesOf(corners[k], corners[k + 1]) >= 10
                   /\ LET last == samples[SamplesUpTo(corners, k)]
                      IN  /\ last.a = corners[k + 1][1] * last.c
                          /\ last.b = corners[k + 1][2] * last.c
             /\ Cardinality(Places("button", PRESSED)) = 1
             /\ Cardinality(Places("button", RELEASED)) = 1
             /\ First(MovePlaces \ {First(MovePlaces)})
                   > First(Places("button", PRESSED))
             /\ Last(MovePlaces) < First(Places("button", RELEASED))

\* a drag over two waypoints sampled three segments of 14, 10 and 15 samples
C27_Witness ==
    /\ gesture.name = "mouse_drag"
    /\ Len(gesture.path.waypoints) = 2
    /\ Len(OfKind(events, "move")) = 1 + 14 + 10 + 15
    /\ gesture.modifiers # <<>>

\* the codes of the recognized names of a modifier list, in order
Recognized(names) ==
    SelectSeq([i \in 1..Len(names) |-> ModifierKeys(Lower(names[i]))],
              LAMBDA c : c \in {29, 42, 56, 125})

\* C29: in a click with modifiers, the recognized modifier keys are pressed
\* in the given order, after the pointer move and before the first button
\* press, and released in the reverse order after the last button release;
\* every press of a modifier has exactly one release, and an unrecognized
\* name causes no key event.
C29_ClickModifiers ==
    gesture.name = "mouse_click"
      => LET codes == Recognized(gesture.modifiers)
             n == Len(codes)
             ks == OfKind(events, "key")
         IN  /\ Len(ks) = 2 * n
             /\ \A i \in 1..n :
                   /\ ks[i] = Key(codes[i], PRESSED)
                   /\ ks[n + i] = Key(codes[n + 1 - i], RELEASED)
             /\ \A i \in Places("key", PRESSED) :
                   /\ First(MovePlaces) < i
                   /\ i < First(Places("button", PRESSED))
             /\ \A i \in Places("key", RELEASED) :
                   Last(Places("button", RELEASED)) < i
             /\ \A c \in {ks[i].a : i \in 1..Len(ks)} :
                   Cardinality({i \in Places("key", PRESSED) : events[i].a = c})
                     = Cardinality({i \in Places("key", RELEASED) : events[i].a = c})

\* a click held shift and ctrl: two presses, two releases in reverse order
C29_Witness ==
    /\ gesture.name = "mouse_click"
    /\ gesture.modifiers = <<"shift", "Ctrl">>
    /\ gesture.click_count = 2
    /\ OfKind(events, "key") = <<Key(42, PRESSED), Key(29, PRESSED),
                                 Key(29, RELEASED), Key(42, RELEASED)>>

\* what the two readings of the order of a drag share: the move to the
\* origin first, the modifier presses in the given order before the
\* interpolated motion, the button release after the motion and before
\* every modifier release, the modifier releases in reverse order
DragOrderCommon ==
    LET codes == Recognized(gesture.modifiers)
        n == Len(codes)
        ks == OfKind(events, "key")
    IN  /\ events[1] = Move(gesture.path.from[1], gesture.path.from[2], 1)
        /\ Len(ks) = 2 * n
        /\ \A i \in 1..n :
              /\ ks[i] = Key(codes[i], PRESSED)
              /\ ks[n + i] = Key(codes[n + 1 - i], RELEASED)
        /\ \A i \in Places("key", PRESSED) :
              /\ First(MovePlaces) < i
              /\ i < First(MovePlaces \ {First(MovePlaces)})
        /\ First(Places("button", PRESSED))
              < First(MovePlaces \ {First(MovePlaces)})
        /\ Last(MovePlaces) < First(Places("button", RELEASED))
        /\ \A i \in Places("key", RELEASED) :
              First(Places("button", RELEASED)) < i

\* C30 as stated: a drag emits move to origin, button press, modifier
\* presses, interpolated motion, button release, modifier releases in
\* reverse order; the button press precedes every modifier press and the
\* button release precedes every modifier release.
C30_DragButtonThenModifiers ==
    gesture.name = "mouse_drag"
      => /\ DragOrderCommon
         /\ \A i \in Places("key", PRESSED) :
               First(Places("button", PRESSED)) < i

\* C30 as amended: a drag emits move to origin, modifier presses, button
\* press, interpolated motion, button release, modifier releases in reverse
\* order; every modifier press precedes the button press and the button
\* release precedes every modifier release.
C30_DragModifiersThenButton ==
    gesture.name = "mouse_drag"
      => /\ DragOrderCommon
         /\ \A i \in Places("key", PRESSED) :
               i < First(Places("button", PRESSED))

\* a drag held shift and ctrl, pressed before the button went down
C30_Witness ==
    /\ gesture.name = "mouse_drag"
    /\ gesture.modifiers = <<"shift", "Ctrl">>
    /\ gesture.path.waypoints # <<>>
    /\ Cardinality(Places("key", PRESSED)) = 2
    /\ Last(Places("key", PRESSED)) < First(Places("button", PRESSED))


\* C28: a key or button held open by a down tool stays pressed at the
\* compositor until its matching up tool is called, whatever composed
\* gestures (clicks, drags, key combinations with the same modifier or
\* button) run in between.
C28_HeldStaysPressed == held \subseteq pressed

\* the places of the events of a kind in the last gesture
PlacesOf(kind) == {i \in 1..Len(events) : events[i].kind = kind}

\* the discrete scroll increments of the last gesture, each by its value
\* on the scrolled axis, and whether every one stays off the other axis
Increments ==
    LET incs == SelectSeq(events, LAMBDA e : e.kind = "scroll_discrete")
    IN  [i \in 1..Len(incs) |->
            IF gesture.horizontal THEN incs[i].a ELSE incs[i].b]
OnAxis ==
    \A i \in PlacesOf("scroll_discrete") :
        IF gesture.horizontal THEN events[i].b = 0 ELSE events[i].a = 0

RECURSIVE Sum(_)
Sum(seq) == IF seq = <<>> THEN 0 ELSE Head(seq) + Sum(Tail(seq))

DiscreteScroll == gesture.name = "mouse_scroll" /\ gesture.discrete

\* what the split and the single increment have in common: the pointer is
\* moved first, the increments lie on the scrolled axis, sum to the delta
\* and differ by at most one tick, and one scroll-stop ends the gesture
ScrollCommon ==
    /\ events[1] = Move(gesture.p[1], gesture.p[2], 1)
    /\ PlacesOf("move") = {1}
    /\ \A i \in PlacesOf("scroll_discrete") : i > 1
    /\ OnAxis
    /\ Sum(Increments) = gesture.delta
    /\ \A i, j \in 1..Len(Increments) : Abs(Increments[i] - Increments[j]) <= 1
    /\ PlacesOf("scroll_stop") = {Len(events)}
    /\ gesture.steps <= 1 => Increments = <<gesture.delta>>

KeyEvents == OfKind(events, "key")

\* the modifier codes of a combination in the order its parts are written
WrittenModifiers(parts) ==
    LET named == SelectSeq(parts, LAMBDA q : ModifierKeys(Lower(q)) # 0)
    IN  [i \in 1..Len(named) |-> ModifierKeys(Lower(named[i]))]

\* the code of the main key of a combination: of its last part that is not
\* a modifier name, 0 when there is none or it has no keycode
MainKey(parts) ==
    LET others == {i \in 1..Len(parts) : ModifierKeys(Lower(parts[i])) = 0}
    IN  IF others = {} THEN 0 ELSE KeyNameToEvdev(parts[Last(others)])

\* C32: a key combination with a recognized main key is emitted as each
\* modifier pressed in the order written, the main key pressed then
\* released, each modifier released in the reverse order; every key is
\* released as often as it is pressed, so the multiset of pressed keys is
\* the same after the call as before it, and no modifier is released before
\* the main key is released.
C32_ComboOrder ==
    (gesture.name = "keyboard_key" /\ MainKey(gesture.key) # 0) =>
        LET mods == WrittenModifiers(gesture.key)
            n == Len(mods)
            main == MainKey(gesture.key)
        IN  /\ Len(KeyEvents) = 2 * n + 2
            /\ \A i \in 1..n : KeyEvents[i] = Key(mods[i], PRESSED)
            /\ KeyEvents[n + 1] = Key(main, PRESSED)
            /\ KeyEvents[n + 2] = Key(main, RELEASED)
            /\ \A i \in 1..n : KeyEvents[n + 2 + i] = Key(mods[n + 1 - i], RELEASED)
            /\ \A code \in {KeyEvents[i].a : i \in 1..Len(KeyEvents)} :
                  Cardinality({i \in 1..Len(KeyEvents) :
                                  KeyEvents[i] = Key(code, PRESSED)})
                  = Cardinality({i \in 1..Len(KeyEvents) :
                                    KeyEvents[i] = Key(code, RELEASED)})
            /\ \A i \in 1..Len(KeyEvents) :
                  (KeyEvents[i].b = RELEASED /\ i < n + 2) => KeyEvents[i].a = main
            /\ pressed = {}

\* shift+Ctrl+a: shift, ctrl and a go down, then a, ctrl and shift go up
C32_Witness ==
    /\ gesture.name = "keyboard_key"
    /\ gesture.key = <<"shift", "Ctrl", "a">>
    /\ KeyEvents = <<Key(42, PRESSED), Key(29, PRESSED), Key(30, PRESSED),
                     Key(30, RELEASED), Key(29, RELEASED), Key(42, RELEASED)>>

\* a combination whose main key has no keycode emits nothing
UnresolvedEmitsNothing ==
    (gesture.name = "keyboard_key" /\ MainKey(gesture.key) = 0) =>
        /\ events = <<>>
        /\ pressed = before

\* the step is a keyboard_key_up that follows a keyboard_key_down of the
\* same combination
DownThenUp ==
    /\ gesture.name = "keyboard_key_down"
    /\ gesture'.name = "keyboard_key_up"
    /\ gesture'.key = gesture.key

\* the main key of the last gesture is released before any of its modifiers
MainReleasedFirst ==
    MainKey(gesture.key) # 0 =>
        /\ KeyEvents # <<>>
        /\ KeyEvents[1] = Key(MainKey(gesture.key), RELEASED)

\* C38: keyboard_key called with a combination whose main key cannot be
\* resolved to a keycode (an unknown key name, or modifier names only)
\* emits no key event, so it leaves no modifier pressed; keyboard_key_down
\* followed by keyboard_key_up with the same combination leaves the set of
\* pressed keys as it was before the pair, with the main key released
\* before the modifiers.
C38_UnresolvedAndPair ==
    /\ []UnresolvedEmitsNothing
    /\ [][DownThenUp => (pressed' = before /\ MainReleasedFirst')]_vars

\* the ids the last touch gesture was to allocate, and the places of the
\* touch events of one id in its events
GestureIds == gesture.base..(gesture.base + gesture.fingers - 1)
TouchPlaces(id) ==
    {i \in 1..Len(events) : events[i].kind # "sleep" /\ events[i].id = id}

\* the events of a touch are one down, then its motions, then one up
DownMotionsUp(id) ==
    LET ps == TouchPlaces(id)
    IN  /\ Cardinality(ps) >= 2
        /\ \A i \in ps :
              events[i].kind = IF i = First(ps) THEN "touch_down"
                               ELSE IF i = Last(ps) THEN "touch_up"
                               ELSE "touch_motion"

\* the finger id of an N-finger swipe keeps its offset from the group
\* centre: its k-th motion is as far from the centre at step k as its down
\* is from the start of the swipe
ConstantOffset(id) ==
    LET dn == events[First(TouchPlaces(id))]
        ms == SelectSeq(events, LAMBDA e : e.kind = "touch_motion" /\ e.id = id)
        n == gesture.steps
    IN  /\ Len(ms) = n
        /\ \A k \in 1..n :
              /\ ms[k].c = n
              /\ ms[k].a - (gesture.from[1] * n + (gesture.to[1] - gesture.from[1]) * k)
                 = (dn.a - gesture.from[1]) * n
              /\ ms[k].b - (gesture.from[2] * n + (gesture.to[2] - gesture.from[2]) * k)
                 = (dn.b - gesture.from[2]) * n

\* C33: every touch gesture (tap, swipe, pinch, N-finger swipe) that returns
\* normally has released every touch it allocated and touched no id it did
\* not allocate: per touch the events are one down, then its motions, then
\* one up; the active-touch map after the gesture equals the map before it;
\* and in an N-finger swipe each finger keeps a constant offset from the
\* moving group centre at every step.
C33_TouchGestureReleases ==
    (gesture.name \in TouchGestures /\ opRet = "ok") =>
        /\ \A i \in 1..Len(events) :
              events[i].kind # "sleep" => events[i].id \in GestureIds
        /\ \A id \in GestureIds : DownMotionsUp(id)
        /\ \A id \in GestureIds :
              \E i \in 1..Len(touchLog) : touchLog[i].id = id
        /\ \A i \in 1..Len(touchLog) :
              touchLog[i].id \in GestureIds =>
                  touchLog[i].up = 1 /\ touchLog[i].unref = 1
        /\ active_touches = gesture.active
        /\ next_touch_id = gesture.base + gesture.fingers
        /\ gesture.name = "touch_multi_swipe" =>
              \A id \in GestureIds : ConstantOffset(id)

\* a three-finger swipe made while a touch of an earlier gesture is still
\* active returns normally
C33_Witness ==
    /\ gesture.name = "touch_multi_swipe"
    /\ gesture.fingers = 3
    /\ opRet = "ok"
    /\ gesture.active # {}
    /\ active_touches = gesture.active
    /\ Len(events) = 3 + 4 * gesture.steps + 3

\* C40: a touch gesture that fails part-way (a touch-down raises after one
\* or more touches of the gesture were put down) leaves none of the touches
\* it allocated active: when the error reaches the caller the active-touch
\* map equals the map before the gesture, and the session is not torn down.
C40_FailedGestureReleases ==
    (gesture.name \in TouchGestures /\ opRet = "RuntimeError") =>
        /\ active_touches = gesture.active
        /\ eiPc = "ready"
        /\ channel = "open"
        /\ ctxAlive

\* how the handshake loop was left: early with both required slots filled,
\* on a dispatch error, or at the first loop head at which the budget was
\* used up, which is less than one poll interval after it
LoopLeft ==
    eiPc = "post" =>
        /\ loopEnd \in {"early", "dispatch_error", "timeout"}
        /\ loopEnd = "early" => (pointer # 0 /\ keyboard # 0)
        /\ loopEnd = "timeout" => elapsed >= Budget

\* C34: the negotiation handshake always terminates within its time budget:
\* each loop pass waits at most one poll interval, the loop is left as soon
\* as a drain ends with both a pointer and a keyboard device registered, it
\* stops on a dispatch error, and otherwise it ends when the budget is used
\* up (no pass is entered after that, so the loop ends less than one poll
\* interval after the budget); it terminates whatever events arrive, also
\* when none does.
C34_HandshakeTerminates ==
    /\ [](elapsed < Budget + PollTicks)
    /\ [](eiPc = "select" => (pointer = 0 \/ keyboard = 0))
    /\ []LoopLeft
    /\ [][elapsed' - elapsed <= PollTicks]_vars
    /\ [][(loopEnd' = "dispatch_error" /\ loopEnd # "dispatch_error")
             => (eiPc \in SelectPcs /\ eiPc' = "post")]_vars
    /\ (eiPc \in SelectPcs) ~> (eiPc \in {"ready", "failed"})

\* the loop ended on the budget although no event ever arrived
C34_Witness ==
    /\ eiPc = "post"
    /\ loopEnd = "timeout"
    /\ sent = {}
    /\ processed = {}
    /\ elapsed >= Budget

\* a device was offered to the Registry: each slot of a capability it has
\* is filled, by it or by a device seen before it
Offered(d) ==
    /\ "pointer_absolute" \in CapsOf(d) => pointer # 0
    /\ "keyboard" \in CapsOf(d) => keyboard # 0
    /\ "touch" \in CapsOf(d) => touch_device # 0

\* C35: the handshake evaluates its early-exit condition only after the
\* current drain pass is finished: when the loop has been left no dispatched
\* event is still unread and every device-added event that was dispatched
\* was offered to the Registry, so a touch-capable device advertised in the
\* same pass as the device that completes the pointer/keyboard pair is
\* registered as the touch device.
C35_ExitAfterDrain ==
    eiPc = "post" =>
        /\ queue = <<>>
        /\ \A e \in sent :
              (e.type = "device_added" /\ e \notin Range(wire)) =>
                  (e \in processed /\ Offered(e.dev))

\* the loop was left early with the pair completed by device 1 and the
\* touch device 3 read after it in the same pass
C35_Witness ==
    /\ eiPc = "post"
    /\ loopEnd = "early"
    /\ pointer = 1
    /\ keyboard = 1
    /\ touch_device = 3

\* the native calls of a kind made on the device d so far
CallsOn(c, d) ==
    Cardinality({i \in 1..Len(calls) : calls[i].call = c /\ calls[i].dev = d})

\* C36: at close, for every aliasing pattern of the Registry, each distinct
\* device that was start-emulated is stop-emulated exactly once, and the
\* number of device references released equals the number taken at
\* registration (one per filled slot): no device is stop-emulated twice and
\* no reference is leaked or released twice.
C36_CloseReleasesEachOnce ==
    eiPc = "closed" =>
        \A d \in Devices :
            /\ CallsOn("stop_emulating", d) = CallsOn("start_emulating", d)
            /\ refs[d] = 0

\* the step is a close() called on a client that was closed before
CloseAgain ==
    /\ eiPc = "closed"
    /\ lastOp'.op = "close"
    /\ nOps' = nOps + 1

\* the releases of a kind the last close made
StepsOf(what) ==
    Cardinality({i \in 1..Len(closeTrace) : closeTrace[i].step = what})

\* C37: over any number of close calls on one client, the negotiation
\* cookie is released through the compositor's disconnect call at most once
\* and the protocol context is released at most once; a second close issues
\* no native or bus call.
C37_CloseIdempotent ==
    /\ [](StepsOf("disconnect") <= 1 /\ StepsOf("ei_unref") <= 1)
    /\ [][CloseAgain => (closeTrace' = <<>> /\ calls' = calls)]_vars

\* the step replaces or clears the reference to a live input backend
BackendDropped == srvInput # 0 /\ srvInput' # srvInput

====
